---- MODULE Spec2Model ----
(***************************************************************************)
(* State-machine model of be/src/storage/tablet_updates.cpp                *)
(* (TabletUpdates: the MVCC version log of a primary-key tablet, its       *)
(* pending commits, the asynchronous apply task, compaction, readers,      *)
(* version expiry and full-snapshot load).                                 *)
(*                                                                         *)
(* A section of code that runs under one acquisition of _lock, and an       *)
(* access to an atomic flag outside a lock, is one step of the thread that *)
(* executes it; the position of each thread is part of the state.          *)
(***************************************************************************)
EXTENDS Integers, Sequences, FiniteSets, TLC

\* ------------------------------------------------------------------------
\* Bounds of the model
\* ------------------------------------------------------------------------
\* largest major version a rowset_commit / snapshot may carry
MaxVersion == 3
\* largest version the committer of SpecFlood sends
MaxFloodVersion == 104
\* largest version the committer of SpecOrder sends
MaxOrderVersion == 6

\* number of calls of the tablet's operations (rowset_commit, compaction,
\* get_applied_rowsets, remove_expired_versions, load_snapshot) in one run
MaxCalls == 2

\* ------------------------------------------------------------------------
\* Program constants
\* ------------------------------------------------------------------------
\* rowset_commit refuses to buffer when _pending_commits.size() > 100
kMaxPendingCommits == 100

\* ------------------------------------------------------------------------
\* Generic helpers
\* ------------------------------------------------------------------------
Last(s) == s[Len(s)]

MinOf(S) == CHOOSE x \in S : \A y \in S : x <= y

MaxOf(S) == CHOOSE x \in S : \A y \in S : x >= y

MaxNat(a, b) == IF a >= b THEN a ELSE b

SeqToSet(s) == {s[i] : i \in 1..Len(s)}

\* std::map::erase(key)
MapErase(f, k) == [x \in (DOMAIN f) \ {k} |-> f[x]]

\* std::map::emplace / operator[]=
MapPut(f, k, v) == [x \in (DOMAIN f) \cup {k} |-> IF x = k THEN v ELSE f[x]]

EmptyMap == [x \in {} |-> 0]

\* the elements of a set of integers as an ascending sequence (std::sort)
RECURSIVE SortedSeq(_)
SortedSeq(S) == IF S = {} THEN <<>> ELSE <<MinOf(S)>> \o SortedSeq(S \ {MinOf(S)})

\* ------------------------------------------------------------------------
\* EditVersion
\* ------------------------------------------------------------------------
EditVersion(major, minor) == [major |-> major, minor |-> minor]

\* EditVersion::operator< : lexicographic on (major, minor)
VersionLess(a, b) == \/ a.major < b.major
                     \/ a.major = b.major /\ a.minor < b.minor

\* ------------------------------------------------------------------------
\* Rowsets handed to the tablet
\* ------------------------------------------------------------------------
\* the rowset written by the load transaction of `version`: nseg segments that
\* hold one row of one byte each
Rowset(kind, version, nseg) ==
    [rowset_id |-> <<kind, version>>, num_segments |-> nseg, segment_rows |-> 1,
     num_rows |-> nseg, data_disk_size |-> nseg]

InputRowset(version) == Rowset("txn", version, 1)

VARIABLES
    versions,            \* _versions: the version log (EditVersionInfo)
    apply_version_idx,   \* _apply_version_idx (0-based: it names versions[idx + 1])
    pending_commits,     \* _pending_commits: version -> rowset
    rowsets,             \* _rowsets: rowset seg id -> rowset
    rowset_stats,        \* _rowset_stats: rowset seg id -> RowsetStats
    next_rowset_id,      \* _next_rowset_id
    next_log_id,         \* _next_log_id
    error,               \* _error
    apply_running,       \* _apply_running
    apply_stopped,       \* _apply_stopped
    compaction_running,  \* _compaction_running
    unused_rowsets,      \* _unused_rowsets
    del_vectors,         \* latest persisted delete vector of each segment
    apply_queue,         \* apply tasks submitted to the pool, not started
    crashed,             \* the process was aborted by LOG(FATAL)
    num_calls,           \* calls of the tablet's operations started so far
    arrived,             \* history: the versions the ordered committer has sent
    rc,                  \* the thread calling rowset_commit
    da,                  \* the pool thread running do_apply
    cp,                  \* the threads calling compaction
    gr,                  \* the thread calling get_applied_rowsets
    ex,                  \* the thread calling remove_expired_versions
    ls,                  \* the thread calling load_snapshot
    table_items,         \* JoinHashTableItems of the hash join node's _ht
    probe_state,         \* HashTableProbeState of the hash join node's _ht
    node,                \* the HashJoinNode: its fields and the position of its caller
    child,               \* the chunks the children of the node have still to return
    returned,            \* history: the chunks get_next has returned
    driver,              \* a PipelineDriver, its operators and its fragment context
    context,             \* a ContextWithDependency and the operators that share it
    merge,               \* a HeapMergeIterator and its children
    load_mgr             \* the LoadChannelMgr

join_vars == <<table_items, probe_state, node, child, returned>>

component_vars == <<driver, context, merge, load_mgr>>

tablet_vars == <<versions, apply_version_idx, pending_commits, rowsets, rowset_stats,
                 next_rowset_id, next_log_id, error, apply_running, apply_stopped,
                 compaction_running, unused_rowsets, del_vectors, apply_queue, crashed>>

thread_vars == <<rc, da, cp, gr, ex, ls>>

vars == <<versions, apply_version_idx, pending_commits, rowsets, rowset_stats,
          next_rowset_id, next_log_id, error, apply_running, apply_stopped,
          compaction_running, unused_rowsets, del_vectors, apply_queue, crashed,
          num_calls, arrived, join_vars, component_vars, rc, da, cp, gr, ex, ls>>

\* ------------------------------------------------------------------------
\* Accessors
\* ------------------------------------------------------------------------
\* num_rowsets(), lines 290-293
NumRowsets == IF versions = <<>> THEN 0 ELSE Len(Last(versions).rowsets)

\* the sum of byte_size over the rowsets of a list that have statistics
RECURSIVE SumByteSize(_, _)
SumByteSize(rowset_ids, stats) ==
    IF rowset_ids = <<>> THEN 0
    ELSE (IF rowset_ids[1] \in DOMAIN stats THEN stats[rowset_ids[1]].byte_size ELSE 0)
         + SumByteSize(Tail(rowset_ids), stats)

\* data_size(), lines 244-265
DataSize == SumByteSize(Last(versions).rowsets, rowset_stats)

\* ------------------------------------------------------------------------
\* The in-memory tablet state that the commit path reads and writes
\* ------------------------------------------------------------------------
TabletState == [versions |-> versions, rowsets |-> rowsets, rowset_stats |-> rowset_stats,
                next_rowset_id |-> next_rowset_id, next_log_id |-> next_log_id]

\* RowsetStats of a rowset that was just added (num_dels = 0)
NewRowsetStats(rowset) ==
    [num_segments |-> rowset.num_segments, num_rows |-> rowset.num_rows,
     num_dels |-> 0, byte_size |-> rowset.data_disk_size]

\* time(nullptr) when a log entry is created: the clock is read as the number
\* of metadata log records written so far, so later entries carry later times
Now(T) == T.next_log_id

\* an EditVersionInfo; compaction is <<>> (null) or <<CompactionInfo>>
EditVersionInfo(version, creation_time, rs, deltas, compaction) ==
    [version |-> version, creation_time |-> creation_time, rowsets |-> rs,
     deltas |-> deltas, compaction |-> compaction]

\* a commit that overwrites the last log entry instead of appending
RowsetCommitOverwritesLast(T, version, rowset) ==
    LET rowsetid == T.next_rowset_id
        nrs == Append(Last(T.versions).rowsets, rowsetid)
    IN [versions |-> Append(SubSeq(T.versions, 1, Len(T.versions) - 1),
                            EditVersionInfo(EditVersion(version, 0), Now(T), nrs,
                                            <<rowsetid>>, <<>>)),
        rowsets |-> MapPut(T.rowsets, rowsetid, rowset),
        rowset_stats |-> MapPut(T.rowset_stats, rowsetid, NewRowsetStats(rowset)),
        next_rowset_id |-> T.next_rowset_id + MaxNat(1, rowset.num_segments),
        next_log_id |-> T.next_log_id + 1]

\* _rowset_commit_unlocked after the metadata write succeeded
RowsetCommitUnlocked(T, version, rowset) ==
    LET rowsetid == T.next_rowset_id
        creation_time == Now(T)
        nrs == IF T.versions = <<>> THEN <<rowsetid>>
               ELSE Append(Last(T.versions).rowsets, rowsetid)
        rowsetid_add == MaxNat(1, rowset.num_segments)
    IN [versions |-> Append(T.versions,
                            EditVersionInfo(EditVersion(version, 0), creation_time, nrs,
                                            <<rowsetid>>, <<>>)),
        rowsets |-> MapPut(T.rowsets, rowsetid, rowset),
        rowset_stats |-> MapPut(T.rowset_stats, rowsetid, NewRowsetStats(rowset)),
        next_rowset_id |-> T.next_rowset_id + rowsetid_add,
        next_log_id |-> T.next_log_id + 1]

\* the drain that erases the stale entries but promotes nothing
TryCommitPendingsStaleOnly(T, pending, writes_ok) ==
    [T |-> T,
     pending |-> [v \in {x \in DOMAIN pending : x > Last(T.versions).version.major} |->
                     pending[v]],
     failed |-> FALSE]

\* _try_commit_pendings_unlocked; writes_ok is the number of metadata writes
\* that succeed before one fails
RECURSIVE TryCommitPendingsUnlocked(_, _, _)
TryCommitPendingsUnlocked(T, pending, writes_ok) ==
    IF DOMAIN pending = {} THEN [T |-> T, pending |-> pending, failed |-> FALSE]
    ELSE LET version == MinOf(DOMAIN pending)
             current_version == Last(T.versions).version.major
         IN IF version <= current_version
            THEN TryCommitPendingsUnlocked(T, MapErase(pending, version), writes_ok)
            ELSE IF version = current_version + 1
            THEN IF writes_ok > 0
                 THEN TryCommitPendingsUnlocked(
                          RowsetCommitUnlocked(T, version, pending[version]),
                          MapErase(pending, version), writes_ok - 1)
                 ELSE [T |-> T, pending |-> pending, failed |-> TRUE]
            ELSE [T |-> T, pending |-> pending, failed |-> FALSE]

\* _check_for_apply without the test of _apply_running
CheckForApplyIgnoreRunning(stopped, running, queue, err, idx, nversions, submit_ok) ==
    IF stopped \/ idx + 1 = nversions
    THEN [apply_running |-> running, apply_queue |-> queue, error |-> err, notify |-> FALSE]
    ELSE IF submit_ok
    THEN [apply_running |-> TRUE, apply_queue |-> queue + 1, error |-> err, notify |-> FALSE]
    ELSE [apply_running |-> TRUE, apply_queue |-> queue, error |-> TRUE, notify |-> TRUE]

\* _check_for_apply: the values of _apply_running, the pool queue and _error
\* after the call, and whether _set_error notified _apply_version_changed
CheckForApply(stopped, running, queue, err, idx, nversions, submit_ok) ==
    IF stopped
    THEN [apply_running |-> running, apply_queue |-> queue, error |-> err, notify |-> FALSE]
    ELSE IF running \/ idx + 1 = nversions
    THEN [apply_running |-> running, apply_queue |-> queue, error |-> err, notify |-> FALSE]
    ELSE IF submit_ok
    THEN [apply_running |-> TRUE, apply_queue |-> queue + 1, error |-> err, notify |-> FALSE]
    ELSE [apply_running |-> TRUE, apply_queue |-> queue, error |-> TRUE, notify |-> TRUE]

\* _apply_version_changed.notify_all(): a reader blocked in wait_for is woken
Notify(reader) == IF reader.pc = "waiting" THEN [reader EXCEPT !.notified = TRUE] ELSE reader

\* ------------------------------------------------------------------------
\* Initial states: the tablet after TabletUpdates::init()
\* ------------------------------------------------------------------------
NoRowset == Rowset("none", 0, 0)

IdleCommit == [pc |-> "idle", version |-> 0, rowset |-> NoRowset, status |-> "none",
               path |-> "none"]

\* a newly created tablet: version 1 with no rowsets, applied
InitFresh ==
    /\ versions = <<EditVersionInfo(EditVersion(1, 0), 0, <<>>, <<>>, <<>>)>>
    /\ apply_version_idx = 0
    /\ rowsets = EmptyMap
    /\ rowset_stats = EmptyMap
    /\ next_rowset_id = 0
    /\ next_log_id = 0
    /\ del_vectors = EmptyMap
    /\ apply_running = FALSE
    /\ apply_queue = 0

\* no pipeline driver and no shared context has been created
NoPipeline == driver = <<>> /\ context = <<>>

\* no merge iterator has been created
NoMerge == merge = <<>>

\* no load channel manager has been created
NoLoad == load_mgr = <<>>

NoComponents == NoPipeline /\ NoMerge /\ NoLoad

\* no hash join node has been created
NoJoin ==
    /\ table_items = <<>>
    /\ probe_state = <<>>
    /\ node = <<>>
    /\ child = <<>>
    /\ returned = <<>>

InitCommon ==
    /\ pending_commits = EmptyMap
    /\ error = FALSE
    /\ apply_stopped = FALSE
    /\ compaction_running = FALSE
    /\ unused_rowsets = {}
    /\ crashed = FALSE
    /\ num_calls = 0
    /\ arrived = {}
    /\ rc = IdleCommit

\* ------------------------------------------------------------------------
\* rowset_commit
\* ------------------------------------------------------------------------
\* the threads of the update compaction pool
CompactionThreads == {1, 2}

\* the threads that call the operations of the tablet; the apply task runs on
\* a pool thread of its own
ClientThreads == {1, 2}

\* the calls that have started and not returned
CallsInFlight ==
    Cardinality({t \in CompactionThreads : cp[t].pc # "idle"})
    + (IF rc.pc # "idle" THEN 1 ELSE 0) + (IF gr.pc # "idle" THEN 1 ELSE 0)
    + (IF ex.pc # "idle" THEN 1 ELSE 0) + (IF ls.pc # "idle" THEN 1 ELSE 0)

\* one more call of an operation of the tablet is started, by a thread that
\* is not inside a call
BeginCall ==
    /\ num_calls < MaxCalls
    /\ CallsInFlight < Cardinality(ClientThreads)
    /\ num_calls' = num_calls + 1
    /\ UNCHANGED <<arrived, join_vars, component_vars>>

\* rowset_commit, line 417: the unlocked read of _error
RowsetCommitEnter(version) ==
    rc' = IF error
          THEN [IdleCommit EXCEPT !.status = "InternalError", !.path = "error"]
          ELSE [IdleCommit EXCEPT !.pc = "lock", !.version = version,
                                  !.rowset = InputRowset(version)]

\* a call of rowset_commit with any version
RowsetCommitCall ==
    /\ ~crashed
    /\ rc.pc = "idle"
    /\ BeginCall
    /\ \E version \in 1..MaxVersion : RowsetCommitEnter(version)
    /\ UNCHANGED <<tablet_vars, da, cp, gr, ex, ls>>

\* the versions a client that runs ahead of a stuck predecessor sends: the
\* committed head or the lowest buffered version again, or the version after
\* the highest one it has sent
FloodVersions ==
    LET head == Last(versions).version.major
        sent == DOMAIN pending_commits
    IN {v \in {head} \cup (IF sent = {} THEN {head + 2} ELSE {MinOf(sent), MaxOf(sent) + 1}) :
          v <= MaxFloodVersion}

\* a call of rowset_commit by that client
FloodCommitCall ==
    /\ ~crashed
    /\ rc.pc = "idle"
    /\ \E version \in FloodVersions : RowsetCommitEnter(version)
    /\ UNCHANGED <<tablet_vars, num_calls, arrived, join_vars, component_vars, da, cp, gr, ex, ls>>

RowsetCommitReturn(status, path) == rc' = [IdleCommit EXCEPT !.status = status, !.path = path]

\* line 423: version <= _versions.back()->version.major()
IsDuplicate(version, vs) == version <= Last(vs).version.major

\* the out-of-order test with the bound off by one
IsOutOfOrderBeyondNext(version, vs) == version > Last(vs).version.major + 2

\* line 427: version > _versions.back()->version.major() + 1
IsOutOfOrder(version, vs) == version > Last(vs).version.major + 1

\* rowset_commit, lines 423-426: the commit of an old version is ignored
RowsetCommitIgnore ==
    /\ ~crashed
    /\ rc.pc = "lock"
    /\ IsDuplicate(rc.version, versions)
    /\ RowsetCommitReturn("OK", "ignored")
    /\ UNCHANGED <<tablet_vars, num_calls, arrived, join_vars, component_vars, da, cp, gr, ex, ls>>

\* the buffer without the size test
NeverTooManyPending(pending) == FALSE

\* the size test that already refuses at the bound
TooManyPendingAtBound(pending) == Cardinality(DOMAIN pending) >= kMaxPendingCommits

\* the size test that guards the pending buffer, line 428
TooManyPending(pending) == Cardinality(DOMAIN pending) > kMaxPendingCommits

\* rowset_commit, lines 427-457: version > _versions.back()->version.major() + 1
RowsetCommitPending ==
    /\ ~crashed
    /\ rc.pc = "lock"
    /\ ~IsDuplicate(rc.version, versions)
    /\ IsOutOfOrder(rc.version, versions)
    /\ \E write_ok \in BOOLEAN :
         IF TooManyPending(pending_commits)
         THEN /\ RowsetCommitReturn("InternalError", "too_many_pending")
              /\ UNCHANGED pending_commits
         ELSE IF rc.version \in DOMAIN pending_commits
         THEN /\ RowsetCommitReturn("OK", "pending_exists")
              /\ UNCHANGED pending_commits
         ELSE /\ pending_commits' = MapPut(pending_commits, rc.version, rc.rowset)
              /\ IF write_ok THEN RowsetCommitReturn("OK", "pending_added")
                             ELSE RowsetCommitReturn("MetaError", "pending_write_failed")
    /\ UNCHANGED <<versions, apply_version_idx, rowsets, rowset_stats, next_rowset_id,
                   next_log_id, error, apply_running, apply_stopped, compaction_running,
                   unused_rowsets, del_vectors, apply_queue, crashed, num_calls, arrived, join_vars, component_vars,
                   da, cp, gr, ex, ls>>

\* rowset_commit, lines 458-467: the remaining case,
\* version == _versions.back()->version.major() + 1
RowsetCommitInOrder ==
    /\ ~crashed
    /\ rc.pc = "lock"
    /\ ~IsDuplicate(rc.version, versions)
    /\ ~IsOutOfOrder(rc.version, versions)
    /\ \E write_ok \in BOOLEAN, writes_ok \in 0..Cardinality(DOMAIN pending_commits),
          submit_ok \in BOOLEAN :
         IF ~write_ok
         THEN /\ RowsetCommitReturn("MetaError", "commit_failed")
              /\ UNCHANGED <<versions, rowsets, rowset_stats, next_rowset_id, next_log_id,
                             pending_commits, apply_running, apply_queue, error, gr>>
         ELSE LET committed == RowsetCommitUnlocked(TabletState, rc.version, rc.rowset)
                  r == TryCommitPendingsUnlocked(committed, pending_commits, writes_ok)
                  c == CheckForApply(apply_stopped, apply_running, apply_queue, error,
                                     apply_version_idx, Len(r.T.versions), submit_ok)
              IN /\ versions' = r.T.versions
                 /\ rowsets' = r.T.rowsets
                 /\ rowset_stats' = r.T.rowset_stats
                 /\ next_rowset_id' = r.T.next_rowset_id
                 /\ next_log_id' = r.T.next_log_id
                 /\ pending_commits' = r.pending
                 /\ apply_running' = c.apply_running
                 /\ apply_queue' = c.apply_queue
                 /\ error' = c.error
                 /\ gr' = IF c.notify THEN Notify(gr) ELSE gr
                 /\ RowsetCommitReturn("OK", IF r.failed THEN "committed_promotion_failed"
                                             ELSE IF r.pending # pending_commits
                                             THEN "committed_promoted"
                                             ELSE "committed")
    /\ UNCHANGED <<apply_version_idx, apply_stopped, compaction_running, unused_rowsets,
                   del_vectors, crashed, num_calls, arrived, join_vars, component_vars, da, cp, ex, ls>>

\* ------------------------------------------------------------------------
\* The apply task (ApplyCommitTask::run -> do_apply)
\* ------------------------------------------------------------------------
IdleApply == [pc |-> "none", info |-> <<>>, new_deletes |-> EmptyMap,
              new_del_vecs |-> EmptyMap, total_deletes |-> 0]

\* the segment ids rowset_id .. rowset_id + num_segments - 1 of a rowset
SegmentIds(rowset_id, rowset) == {rowset_id + i : i \in 0..(rowset.num_segments - 1)}

\* the row ordinals of one segment of a rowset
Ordinals(rowset) == 0..(rowset.segment_rows - 1)

\* the thread pool starts a submitted ApplyCommitTask
ApplyStart ==
    /\ ~crashed
    /\ apply_queue > 0
    /\ da.pc = "none"
    /\ apply_queue' = apply_queue - 1
    /\ da' = [IdleApply EXCEPT !.pc = "while"]
    /\ UNCHANGED <<versions, apply_version_idx, pending_commits, rowsets, rowset_stats,
                   next_rowset_id, next_log_id, error, apply_running, apply_stopped,
                   compaction_running, unused_rowsets, del_vectors, crashed, num_calls, arrived, join_vars, component_vars,
                   rc, cp, gr, ex, ls>>

\* the loop of do_apply without the test of the stop flag
ApplyWhileIgnoresStop ==
    /\ ~crashed
    /\ da.pc = "while"
    /\ da' = [da EXCEPT !.pc = "pick"]
    /\ UNCHANGED <<tablet_vars, num_calls, arrived, join_vars, component_vars, rc, cp, gr, ex, ls>>

\* do_apply, line 629: while (!_apply_stopped)
ApplyWhile ==
    /\ ~crashed
    /\ da.pc = "while"
    /\ da' = [da EXCEPT !.pc = IF apply_stopped THEN "exit" ELSE "pick"]
    /\ UNCHANGED <<tablet_vars, num_calls, arrived, join_vars, component_vars, rc, cp, gr, ex, ls>>

\* do_apply, lines 631-643: under _lock, take the entry after the applied one;
\* lines 659-662: an entry with neither deltas nor a compaction is an error
ApplyPick ==
    /\ ~crashed
    /\ da.pc = "pick"
    /\ IF apply_version_idx + 1 >= Len(versions)
       THEN /\ da' = [da EXCEPT !.pc = "exit"]
            /\ UNCHANGED <<error, gr>>
       ELSE LET info == versions[apply_version_idx + 2]
            IN IF Len(info.deltas) > 0
               THEN /\ da' = [da EXCEPT !.info = <<info>>, !.pc = "rowset_prepare"]
                    /\ UNCHANGED <<error, gr>>
               ELSE IF info.compaction # <<>>
               THEN /\ da' = [da EXCEPT !.info = <<info>>, !.pc = "mark"]
                    /\ UNCHANGED <<error, gr>>
               ELSE /\ da' = [da EXCEPT !.info = <<info>>, !.pc = "check_error"]
                    /\ error' = TRUE
                    /\ gr' = Notify(gr)
    /\ UNCHANGED <<versions, apply_version_idx, pending_commits, rowsets, rowset_stats,
                   next_rowset_id, next_log_id, apply_running, apply_stopped,
                   compaction_running, unused_rowsets, del_vectors, apply_queue, crashed,
                   num_calls, arrived, join_vars, component_vars, rc, cp, ex, ls>>

\* the rowset whose statistics cover segment rssid:
\* _rowset_stats.upper_bound(rssid), then iter--
StatsOwner(stats, rssid) == MaxOf({r \in DOMAIN stats : r <= rssid})

\* lines 799-817: add the new deletes of one segment to the owner's num_dels
AddNumDels(stats, rssid, ndels) ==
    LET owner == StatsOwner(stats, rssid)
    IN IF rssid >= owner + stats[owner].num_segments THEN stats
       ELSE [stats EXCEPT ![owner].num_dels = @ + ndels]

RECURSIVE AddAllNumDels(_, _, _)
AddAllNumDels(stats, new_deletes, segs) ==
    IF segs = {} THEN stats
    ELSE LET rssid == MinOf(segs)
         IN AddAllNumDels(AddNumDels(stats, rssid, Cardinality(new_deletes[rssid])),
                          new_deletes, segs \ {rssid})

\* DelVector::add_dels_as_new_version: the union of the old vector and the new deletes
AddDelsAsNewVersion(old_del_vec, dels) == old_del_vec \cup dels

\* the cardinality test left out
DelvecNeverInconsistent(old_del_vec, dels) == FALSE

\* line 781: cur_old + cur_add != cur_new
DelvecInconsistent(old_del_vec, dels) ==
    Cardinality(old_del_vec) + Cardinality(dels)
        # Cardinality(AddDelsAsNewVersion(old_del_vec, dels))

\* lines 751-795: the new delete vector of segment rssid
NewDelVec(rssid, new_segments, new_deletes) ==
    IF rssid \in new_segments THEN new_deletes[rssid]
    ELSE AddDelsAsNewVersion(del_vectors[rssid], new_deletes[rssid])

\* the answers the primary index may give to upsert/erase for an entry: a
\* DeletesMap from segment ids to deleted ordinals; it holds every segment of
\* the new rowset and at most one displaced row of an older segment
DeletesMaps(info, rowset_id, rowset) ==
    LET new_segments == SegmentIds(rowset_id, rowset)
        old_rowsets == (SeqToSet(info.rowsets) \cap DOMAIN rowsets) \ {rowset_id}
        displaced == UNION {SegmentIds(r, rowsets[r]) \X Ordinals(rowsets[r]) : r \in old_rowsets}
    IN {[s \in new_segments |-> {}]}
       \cup {[s \in new_segments \cup {d[1]} |-> IF s = d[1] THEN {d[2]} ELSE {}] :
             d \in displaced}

\* _apply_rowset_commit, lines 682-822: everything before the metadata write.
\* load_ok: index.load and state.load succeed; get_ok: get_latest_del_vec succeeds
ApplyRowsetPrepare ==
    /\ ~crashed
    /\ da.pc = "rowset_prepare"
    /\ LET info == da.info[1]
           rowset_id == info.deltas[1]
       IN IF rowset_id \notin DOMAIN rowsets
          THEN \* _get_rowset returned null and it is dereferenced
               /\ crashed' = TRUE
               /\ UNCHANGED <<error, rowset_stats, da, gr>>
          ELSE \E load_ok \in BOOLEAN, get_ok \in BOOLEAN,
                  new_deletes \in DeletesMaps(info, rowset_id, rowsets[rowset_id]) :
                 LET new_segments == SegmentIds(rowset_id, rowsets[rowset_id])
                     old_segments == (DOMAIN new_deletes) \ new_segments
                 IN IF ~load_ok
                    THEN /\ error' = TRUE
                         /\ gr' = Notify(gr)
                         /\ da' = [da EXCEPT !.pc = "check_error"]
                         /\ UNCHANGED <<crashed, rowset_stats>>
                    ELSE IF \E s \in old_segments : ~get_ok \/ s \notin DOMAIN del_vectors
                    THEN /\ error' = TRUE
                         /\ gr' = Notify(gr)
                         /\ da' = [da EXCEPT !.pc = "check_error"]
                         /\ UNCHANGED <<crashed, rowset_stats>>
                    ELSE IF \E s \in old_segments :
                                DelvecInconsistent(del_vectors[s], new_deletes[s])
                    THEN \* LOG(FATAL): the process is aborted
                         /\ crashed' = TRUE
                         /\ da' = [da EXCEPT !.new_deletes = new_deletes]
                         /\ UNCHANGED <<error, rowset_stats, gr>>
                    ELSE /\ rowset_stats' = AddAllNumDels(rowset_stats, new_deletes,
                                                          DOMAIN new_deletes)
                         /\ da' = [da EXCEPT
                                     !.pc = "write",
                                     !.new_deletes = new_deletes,
                                     !.new_del_vecs =
                                         [s \in DOMAIN new_deletes |->
                                             NewDelVec(s, new_segments, new_deletes)]]
                         /\ UNCHANGED <<crashed, error, gr>>
    /\ UNCHANGED <<versions, apply_version_idx, pending_commits, rowsets, next_rowset_id,
                   next_log_id, apply_running, apply_stopped, compaction_running,
                   unused_rowsets, del_vectors, apply_queue, num_calls, arrived, join_vars, component_vars, rc, cp, ex, ls>>

\* do_apply, line 656: _compaction_running = true
ApplyMark ==
    /\ ~crashed
    /\ da.pc = "mark"
    /\ compaction_running' = TRUE
    /\ da' = [da EXCEPT !.pc = "compaction_prepare"]
    /\ UNCHANGED <<versions, apply_version_idx, pending_commits, rowsets, rowset_stats,
                   next_rowset_id, next_log_id, error, apply_running, apply_stopped,
                   unused_rowsets, del_vectors, apply_queue, crashed, num_calls, arrived, join_vars, component_vars,
                   rc, cp, gr, ex, ls>>

\* _apply_compaction_commit, lines 1069-1133: everything before the metadata
\* write. index.try_replace reports the output rows whose key is gone.
ApplyCompactionPrepare ==
    /\ ~crashed
    /\ da.pc = "compaction_prepare"
    /\ LET info == da.info[1]
           rowset_id == info.compaction[1].output
       IN \E load_ok \in BOOLEAN :
            IF ~load_ok \/ rowset_id \notin DOMAIN rowsets
            THEN /\ error' = TRUE
                 /\ gr' = Notify(gr)
                 /\ da' = [da EXCEPT !.pc = "unmark"]
            ELSE \E tmp_deletes \in [SegmentIds(rowset_id, rowsets[rowset_id]) ->
                                        SUBSET Ordinals(rowsets[rowset_id])] :
                   /\ da' = [da EXCEPT !.pc = "write",
                                       !.new_del_vecs = tmp_deletes,
                                       !.total_deletes =
                                           Cardinality(UNION {{<<x, o>> : o \in tmp_deletes[x]} :
                                                              x \in DOMAIN tmp_deletes})]
                   /\ UNCHANGED <<error, gr>>
    /\ UNCHANGED <<versions, apply_version_idx, pending_commits, rowsets, rowset_stats,
                   next_rowset_id, next_log_id, apply_running, apply_stopped,
                   compaction_running, unused_rowsets, del_vectors, apply_queue, crashed,
                   num_calls, arrived, join_vars, component_vars, rc, cp, ex, ls>>

\* the pointer advanced whether or not the metadata write succeeded
ApplyAdvanceAlways(idx, write_ok) == idx + 1

\* the new value of _apply_version_idx after the metadata write of an apply
ApplyAdvance(idx, write_ok) == IF write_ok THEN idx + 1 ELSE idx

\* lines 824-844 and 1135-1157: under _lock, write the apply log and the delete
\* vectors in one batch, then advance _apply_version_idx and notify the readers
ApplyWrite ==
    /\ ~crashed
    /\ da.pc = "write"
    /\ \E write_ok \in BOOLEAN :
         /\ apply_version_idx' = ApplyAdvance(apply_version_idx, write_ok)
         /\ IF write_ok
            THEN /\ del_vectors' = [s \in DOMAIN del_vectors \cup DOMAIN da.new_del_vecs |->
                                       IF s \in DOMAIN da.new_del_vecs THEN da.new_del_vecs[s]
                                       ELSE del_vectors[s]]
                 /\ next_log_id' = next_log_id + 1
                 /\ da' = [da EXCEPT !.pc = IF Len(da.info[1].deltas) > 0 THEN "check_error"
                                            ELSE "stats"]
                 /\ UNCHANGED error
            ELSE /\ error' = TRUE
                 /\ da' = [da EXCEPT !.pc = IF Len(da.info[1].deltas) > 0 THEN "check_error"
                                            ELSE "unmark"]
                 /\ UNCHANGED <<del_vectors, next_log_id>>
         /\ gr' = Notify(gr)
    /\ UNCHANGED <<versions, pending_commits, rowsets, rowset_stats, next_rowset_id,
                   apply_running, apply_stopped, compaction_running, unused_rowsets,
                   apply_queue, crashed, num_calls, arrived, join_vars, component_vars, rc, cp, ex, ls>>

\* _apply_compaction_commit, lines 1158-1176: num_dels of the output rowset
ApplyCompactionStats ==
    /\ ~crashed
    /\ da.pc = "stats"
    /\ LET rowset_id == da.info[1].compaction[1].output
       IN rowset_stats' = IF rowset_id \in DOMAIN rowset_stats
                          THEN [rowset_stats EXCEPT ![rowset_id].num_dels = @ + da.total_deletes]
                          ELSE rowset_stats
    /\ da' = [da EXCEPT !.pc = "unmark"]
    /\ UNCHANGED <<versions, apply_version_idx, pending_commits, rowsets, next_rowset_id,
                   next_log_id, error, apply_running, apply_stopped, compaction_running,
                   unused_rowsets, del_vectors, apply_queue, crashed, num_calls, arrived, join_vars, component_vars,
                   rc, cp, gr, ex, ls>>

\* do_apply, line 658: _compaction_running = false
ApplyUnmark ==
    /\ ~crashed
    /\ da.pc = "unmark"
    /\ compaction_running' = FALSE
    /\ da' = [da EXCEPT !.pc = "check_error"]
    /\ UNCHANGED <<versions, apply_version_idx, pending_commits, rowsets, rowset_stats,
                   next_rowset_id, next_log_id, error, apply_running, apply_stopped,
                   unused_rowsets, del_vectors, apply_queue, crashed, num_calls, arrived, join_vars, component_vars,
                   rc, cp, gr, ex, ls>>

\* do_apply, lines 663-666: if (_error) break
ApplyCheckError ==
    /\ ~crashed
    /\ da.pc = "check_error"
    /\ da' = [IdleApply EXCEPT !.pc = IF error THEN "exit" ELSE "while"]
    /\ UNCHANGED <<tablet_vars, num_calls, arrived, join_vars, component_vars, rc, cp, gr, ex, ls>>

\* do_apply, lines 668-671: under _apply_running_lock, clear _apply_running
ApplyExit ==
    /\ ~crashed
    /\ da.pc = "exit"
    /\ IF apply_running
       THEN /\ apply_running' = FALSE
            /\ UNCHANGED crashed
       ELSE \* CHECK(_apply_running) fails
            /\ crashed' = TRUE
            /\ UNCHANGED apply_running
    /\ da' = IdleApply
    /\ UNCHANGED <<versions, apply_version_idx, pending_commits, rowsets, rowset_stats,
                   next_rowset_id, next_log_id, error, apply_stopped, compaction_running,
                   unused_rowsets, del_vectors, apply_queue, num_calls, arrived, join_vars, component_vars,
                   rc, cp, gr, ex, ls>>

\* ------------------------------------------------------------------------
\* compaction
\* ------------------------------------------------------------------------
IdleCompaction == [pc |-> "idle", start_version |-> EditVersion(0, 0), inputs |-> <<>>,
                   input_rowsets |-> <<>>, output |-> NoRowset, version |-> EditVersion(0, 0),
                   status |-> "none"]

\* a call of compaction whose _do_compaction has returned st, not OK
CompactionFailed(st) == [IdleCompaction EXCEPT !.pc = "fail", !.status = st]

\* compaction, lines 1364-1366: the unlocked read of _error
CompactionCall(t) ==
    /\ ~crashed
    /\ cp[t].pc = "idle"
    /\ \A u \in CompactionThreads : u < t => cp[u].pc # "idle"
    /\ BeginCall
    /\ cp' = [cp EXCEPT ![t] = IF error
                               THEN IdleCompaction
                               ELSE [IdleCompaction EXCEPT !.pc = "cas"]]
    /\ UNCHANGED <<versions, apply_version_idx, pending_commits, rowsets, rowset_stats,
                   next_rowset_id, next_log_id, error, apply_running, apply_stopped,
                   compaction_running, unused_rowsets, del_vectors, apply_queue, crashed,
                   rc, da, gr, ex, ls>>

\* _compaction_running.compare_exchange_strong(was_runing, true): the new
\* value of the flag and whether the exchange succeeded
CompareExchange(flag) == [flag |-> TRUE, won |-> ~flag]

\* compaction, lines 1367-1370
CompactionCas(t) ==
    /\ ~crashed
    /\ cp[t].pc = "cas"
    /\ LET x == CompareExchange(compaction_running)
       IN /\ compaction_running' = x.flag
          /\ cp' = [cp EXCEPT ![t] = IF x.won THEN [@ EXCEPT !.pc = "select_version"]
                                     ELSE IdleCompaction]
    /\ UNCHANGED <<versions, apply_version_idx, pending_commits, rowsets, rowset_stats,
                   next_rowset_id, next_log_id, error, apply_running, apply_stopped,
                   unused_rowsets, del_vectors, apply_queue, crashed, num_calls, arrived, join_vars, component_vars,
                   rc, da, gr, ex, ls>>

\* compaction, lines 1373-1378: under _lock, the applied version and its rowsets
CompactionSelectVersion(t) ==
    /\ ~crashed
    /\ cp[t].pc = "select_version"
    /\ cp' = [cp EXCEPT ![t] = [@ EXCEPT !.pc = "select_inputs",
                                         !.start_version = versions[apply_version_idx + 1].version,
                                         !.inputs = versions[apply_version_idx + 1].rowsets]]
    /\ UNCHANGED <<tablet_vars, num_calls, arrived, join_vars, component_vars, rc, da, gr, ex, ls>>

\* _compaction_cost_seek (tablet_updates.h): 32 * 1024 * 1024
compaction_cost_seek == 33554432

compaction_result_bytes_threashold == 1000000000

compaction_result_rows_threashold == 10000000

\* b * d / n rounded down, for d <= n, as (b / n) * d + (b % n) * d / n
MulDiv(b, d, n) == (b \div n) * d + ((b % n) * d) \div n

\* _calc_compaction_score, lines 1461-1473. Every write of num_dels is
\* followed by a call of it, so the score is a function of the statistics
CalcCompactionScore(stat) ==
    IF stat.num_rows < 10 THEN compaction_cost_seek
    ELSE LET cost_record_write == 1
             cost_record_read == 4
             delete_bytes == MulDiv(stat.byte_size, stat.num_dels, stat.num_rows)
         IN compaction_cost_seek + (cost_record_read + cost_record_write) * delete_bytes
            - cost_record_write * stat.byte_size

\* the binary digits of (m + r / l) * 2 ^ (-e) until the 24 of a float
RECURSIVE FloatExpand(_, _, _, _)
FloatExpand(m, r, l, e) ==
    IF m >= 8388608 THEN [m |-> m, r |-> r, e |-> e]
    ELSE IF 2 * r >= l THEN FloatExpand(2 * m + 1, 2 * r - l, l, e - 1)
    ELSE FloatExpand(2 * m, 2 * r, l, e - 1)

\* a mantissa that rounding took to 2 ^ 24
FloatNormal(m, e) == IF m = 16777216 THEN [m |-> 8388608, e |-> e + 1] ELSE [m |-> m, e |-> e]

\* line 1411: (float)((double)s / l) for s, l > 0, rounded to nearest, ties
\* to even: the 24-bit mantissa m and the exponent e of m * 2 ^ e
FloatDiv(s, l) ==
    LET q == s \div l
        r == s % l
    IN IF q < 16777216
       THEN LET x == FloatExpand(q, r, l, 0)
                up == 2 * x.r > l \/ (2 * x.r = l /\ x.m % 2 = 1)
            IN FloatNormal(IF up THEN x.m + 1 ELSE x.m, x.e)
       ELSE LET k == CHOOSE i \in 1..7 : q \div (2 ^ i) < 16777216 /\ q \div (2 ^ (i - 1)) >= 16777216
                m0 == q \div (2 ^ k)
                rem == q % (2 ^ k)
                half == 2 ^ (k - 1)
                up == rem > half \/ (rem = half /\ (r > 0 \/ m0 % 2 = 1))
            IN FloatNormal(IF up THEN m0 + 1 ELSE m0, k)

FloatGreater(a, b) == a.e > b.e \/ (a.e = b.e /\ a.m > b.m)

\* line 1396: the rowsets of the version that have statistics and a positive score
IsValid(rowsetid, stats) ==
    rowsetid \in DOMAIN stats /\ CalcCompactionScore(stats[rowsetid]) > 0

\* line 1399: stat.num_rows == stat.num_dels
IsFullyDead(stat) == stat.num_rows = stat.num_dels

\* stat.num_rows - stat.num_dels is computed in size_t: with more deletes
\* than rows it wraps to 2 ^ 64 - (num_dels - num_rows)
Wraps(num_rows, num_dels) == num_dels > num_rows

\* lines 1407-1414: the CompactionEntry of a rowset that is not fully dead.
\* A wrapped divisor is 2 ^ 64 as a double
CompactionEntry(rowsetid, stat) ==
    [rowsetid |-> rowsetid,
     score_per_row |->
         IF Wraps(stat.num_rows, stat.num_dels)
         THEN LET f == FloatDiv(CalcCompactionScore(stat), 1) IN [m |-> f.m, e |-> f.e - 64]
         ELSE FloatDiv(CalcCompactionScore(stat), stat.num_rows - stat.num_dels),
     num_rows |-> stat.num_rows, num_dels |-> stat.num_dels, bytes |-> stat.byte_size]

\* lines 1390-1416: the candidates, in the order of the rowsets of the version
Candidates(rowset_ids, stats) ==
    LET ids == SelectSeq(rowset_ids,
                         LAMBDA r : IsValid(r, stats) /\ ~IsFullyDead(stats[r]))
    IN [i \in 1..Len(ids) |-> CompactionEntry(ids[i], stats[ids[i]])]

\* the candidates left in the order of the rowsets of the version
UnsortedCandidates(rowset_ids, stats) == {Candidates(rowset_ids, stats)}

\* line 1418: std::sort(candidates) with operator< being score_per_row >
\* rhs.score_per_row; the sort is not stable, so entries of equal score may
\* come in any order
SortedCandidates(rowset_ids, stats) ==
    LET c == Candidates(rowset_ids, stats)
        n == Len(c)
    IN {[i \in 1..n |-> c[p[i]]] :
          p \in {f \in [1..n -> 1..n] :
                   /\ \A i, j \in 1..n : i # j => f[i] # f[j]
                   /\ \A i, j \in 1..n :
                         i < j => ~FloatGreater(c[f[j]].score_per_row, c[f[i]].score_per_row)}}

\* lines 1419-1436: the sorted candidates are added until a threshold is
\* passed; t * 3 / 2 is written t + t / 2. For an entry whose live rows
\* wrapped, new_rows wraps unless the rows counted so far make up for it, and
\* new_bytes is above every threshold unless the entry has no bytes. fault:
\* the division by e.num_rows == 0 at line 1421
RECURSIVE PickCandidates(_, _, _, _)
PickCandidates(candidates, inputs, total_rows_after_compaction, total_bytes_after_compaction) ==
    IF candidates = <<>> THEN [inputs |-> inputs, fault |-> FALSE]
    ELSE LET e == candidates[1]
             wraps == Wraps(e.num_rows, e.num_dels)
             rows_wrap == wraps /\ e.num_dels - e.num_rows > total_rows_after_compaction
             bytes_wrap == wraps /\ e.bytes > 0
             new_rows == total_rows_after_compaction + e.num_rows - e.num_dels
             new_bytes == IF wraps THEN total_bytes_after_compaction
                          ELSE total_bytes_after_compaction
                               + MulDiv(e.bytes, e.num_rows - e.num_dels, e.num_rows)
             rows_slack == compaction_result_rows_threashold
                           + compaction_result_rows_threashold \div 2
             bytes_slack == compaction_result_bytes_threashold
                            + compaction_result_bytes_threashold \div 2
         IN IF e.num_rows = 0
            THEN [inputs |-> inputs, fault |-> TRUE]
            ELSE IF /\ Len(inputs) > 0
                    /\ \/ rows_wrap \/ bytes_wrap
                       \/ new_rows > rows_slack \/ new_bytes > bytes_slack
            THEN [inputs |-> inputs, fault |-> FALSE]
            ELSE IF \/ rows_wrap \/ bytes_wrap
                    \/ new_bytes > compaction_result_bytes_threashold
                    \/ new_rows > compaction_result_rows_threashold
            THEN [inputs |-> Append(inputs, e.rowsetid), fault |-> FALSE]
            ELSE PickCandidates(Tail(candidates), Append(inputs, e.rowsetid),
                                new_rows, new_bytes)

\* the selection without the rowsets that are added directly
CompactionInputsRankedOnly(candidates, rowset_ids, stats) ==
    LET picked == PickCandidates(candidates, <<>>, 0, 0)
    IN [inputs |-> SortedSeq(SeqToSet(picked.inputs)), fault |-> picked.fault]

\* compaction, lines 1386-1441: the rowsets picked as inputs, given the
\* sorted candidates: the fully dead rowsets are added directly, then the
\* candidates; the inputs are sorted (line 1441)
CompactionInputs(candidates, rowset_ids, stats) ==
    LET direct == SelectSeq(rowset_ids,
                            LAMBDA r : IsValid(r, stats) /\ IsFullyDead(stats[r]))
        picked == PickCandidates(candidates, direct, 0, 0)
    IN [inputs |-> SortedSeq(SeqToSet(picked.inputs)), fault |-> picked.fault]

CompactionSelectInputs(t) ==
    /\ ~crashed
    /\ cp[t].pc = "select_inputs"
    /\ \E candidates \in SortedCandidates(cp[t].inputs, rowset_stats) :
         LET picked == CompactionInputs(candidates, cp[t].inputs, rowset_stats)
         IN IF picked.fault
            THEN crashed' = TRUE /\ UNCHANGED cp
            ELSE /\ cp' = [cp EXCEPT ![t] = [@ EXCEPT !.pc = "do", !.inputs = picked.inputs]]
                 /\ UNCHANGED crashed
    /\ UNCHANGED <<versions, apply_version_idx, pending_commits, rowsets, rowset_stats,
                   next_rowset_id, next_log_id, error, apply_running, apply_stopped,
                   compaction_running, unused_rowsets, del_vectors, apply_queue,
                   num_calls, arrived, join_vars, component_vars, rc, da, gr, ex, ls>>

\* rows of a rowset that its delete vectors do not mark deleted
LiveRows(rowset_id) ==
    rowsets[rowset_id].num_rows
    - Cardinality(UNION {{<<s, o>> : o \in del_vectors[s]} :
                         s \in SegmentIds(rowset_id, rowsets[rowset_id]) \cap DOMAIN del_vectors})

RECURSIVE SumLiveRows(_)
SumLiveRows(ids) == IF ids = {} THEN 0
                    ELSE LET r == MinOf(ids) IN LiveRows(r) + SumLiveRows(ids \ {r})

\* the rowset built by compaction_merge_rowsets: the live rows of the inputs
\* in one segment
OutputRowset(t, nrows) ==
    [rowset_id |-> <<"compaction", t>>, num_segments |-> IF nrows > 0 THEN 1 ELSE 0,
     segment_rows |-> nrows, num_rows |-> nrows, data_disk_size |-> nrows]

\* _do_compaction, lines 917-961: find the input rowsets, merge them
CompactionDo(t) ==
    /\ ~crashed
    /\ cp[t].pc = "do"
    /\ \E merge_ok \in BOOLEAN :
         IF \E r \in SeqToSet(cp[t].inputs) : r \notin DOMAIN rowsets
         THEN /\ error' = TRUE
              /\ gr' = Notify(gr)
              /\ cp' = [cp EXCEPT ![t] = CompactionFailed("InternalError")]
         ELSE /\ cp' = [cp EXCEPT ![t] =
                          IF merge_ok
                          THEN [@ EXCEPT !.pc = "commit",
                                         !.input_rowsets =
                                             [k \in 1..Len(cp[t].inputs) |->
                                                 rowsets[cp[t].inputs[k]]],
                                         !.output = OutputRowset(t, SumLiveRows(SeqToSet(cp[t].inputs)))]
                          ELSE CompactionFailed("MergeError")]
              /\ UNCHANGED <<error, gr>>
    /\ UNCHANGED <<versions, apply_version_idx, pending_commits, rowsets, rowset_stats,
                   next_rowset_id, next_log_id, apply_running, apply_stopped,
                   compaction_running, unused_rowsets, del_vectors, apply_queue, crashed,
                   num_calls, arrived, join_vars, component_vars, rc, da, ex, ls>>

\* vector<uint32_t> modify(orig, add, del), lines 57-70
Modify(orig, add, del) == SelectSeq(orig, LAMBDA v : v \notin SeqToSet(del)) \o add

\* _commit_compaction after the metadata write succeeded, lines 1031-1056
CommitCompactionUnlocked(T, info, rowset) ==
    LET lastv == Last(T.versions)
        creation_time == Now(T)
        rowsetid == T.next_rowset_id
        nrs == Modify(lastv.rowsets, <<rowsetid>>, info.inputs)
        rowsetid_add == MaxNat(1, rowset.num_segments)
    IN [versions |-> Append(T.versions,
                            EditVersionInfo(EditVersion(lastv.version.major,
                                                        lastv.version.minor + 1),
                                            creation_time, nrs, <<>>,
                                            <<[start_version |-> info.start_version,
                                               inputs |-> info.inputs,
                                               output |-> rowsetid]>>)),
        rowsets |-> MapPut(T.rowsets, rowsetid, rowset),
        rowset_stats |-> MapPut(T.rowset_stats, rowsetid, NewRowsetStats(rowset)),
        next_rowset_id |-> T.next_rowset_id + rowsetid_add,
        next_log_id |-> T.next_log_id + 1]

\* the input test that finds every input
NoInputMissing(inputs, ors) == FALSE

\* _commit_compaction, lines 987-995: an input that is not in the rowset list
\* of the latest entry
InputMissing(inputs, ors) == \E rowset_id \in SeqToSet(inputs) : rowset_id \notin SeqToSet(ors)

\* _commit_compaction, lines 972-1067
CompactionCommit(t) ==
    /\ ~crashed
    /\ cp[t].pc = "commit"
    /\ \E state_ok \in BOOLEAN, write_ok \in BOOLEAN, submit_ok \in BOOLEAN :
         IF ~state_ok
         THEN /\ cp' = [cp EXCEPT ![t] = CompactionFailed("LoadError")]
              /\ UNCHANGED <<versions, rowsets, rowset_stats, next_rowset_id, next_log_id,
                             apply_running, apply_queue, error, gr>>
         ELSE IF InputMissing(cp[t].inputs, Last(versions).rowsets)
         THEN /\ cp' = [cp EXCEPT ![t] = CompactionFailed("Cancelled")]
              /\ UNCHANGED <<versions, rowsets, rowset_stats, next_rowset_id, next_log_id,
                             apply_running, apply_queue, error, gr>>
         ELSE IF ~write_ok
         THEN /\ cp' = [cp EXCEPT ![t] = CompactionFailed("MetaError")]
              /\ UNCHANGED <<versions, rowsets, rowset_stats, next_rowset_id, next_log_id,
                             apply_running, apply_queue, error, gr>>
         ELSE LET T == CommitCompactionUnlocked(TabletState, cp[t], cp[t].output)
                  c == CheckForApply(apply_stopped, apply_running, apply_queue, error,
                                     apply_version_idx, Len(T.versions), submit_ok)
              IN /\ versions' = T.versions
                 /\ rowsets' = T.rowsets
                 /\ rowset_stats' = T.rowset_stats
                 /\ next_rowset_id' = T.next_rowset_id
                 /\ next_log_id' = T.next_log_id
                 /\ apply_running' = c.apply_running
                 /\ apply_queue' = c.apply_queue
                 /\ error' = c.error
                 /\ gr' = IF c.notify THEN Notify(gr) ELSE gr
                 /\ cp' = [cp EXCEPT ![t] = [@ EXCEPT !.pc = "wait",
                                                      !.version = Last(T.versions).version]]
    /\ UNCHANGED <<apply_version_idx, pending_commits, apply_stopped, compaction_running,
                   unused_rowsets, del_vectors, crashed, num_calls, arrived, join_vars, component_vars, rc, da, ex, ls>>

\* _do_compaction, lines 965-969: _wait_for_version(version, 120000) returns
\* (applied, error, or timed out) and its status is ignored
CompactionReturn(t) ==
    /\ ~crashed
    /\ cp[t].pc = "wait"
    /\ cp' = [cp EXCEPT ![t] = IdleCompaction]
    /\ UNCHANGED <<tablet_vars, num_calls, arrived, join_vars, component_vars, rc, da, gr, ex, ls>>

\* compaction, lines 1455-1458: _compaction_running = false after a failure
CompactionFail(t) ==
    /\ ~crashed
    /\ cp[t].pc = "fail"
    /\ compaction_running' = FALSE
    /\ cp' = [cp EXCEPT ![t] = IdleCompaction]
    /\ UNCHANGED <<versions, apply_version_idx, pending_commits, rowsets, rowset_stats,
                   next_rowset_id, next_log_id, error, apply_running, apply_stopped,
                   unused_rowsets, del_vectors, apply_queue, crashed, num_calls, arrived, join_vars, component_vars,
                   rc, da, gr, ex, ls>>

\* ------------------------------------------------------------------------
\* get_applied_rowsets
\* ------------------------------------------------------------------------
IdleReader == [pc |-> "idle", version |-> 0, status |-> "none", path |-> "none",
               result |-> <<>>, notified |-> FALSE, elapsed |-> FALSE]

\* get_applied_rowsets(version) returns a status that is not OK
ReaderFails(version, status, path) ==
    [IdleReader EXCEPT !.version = version, !.status = status, !.path = path]

AppliedVersion == versions[apply_version_idx + 1].version

\* the entry of get_applied_rowsets without the test of _error
GetAppliedRowsetsEnterUnchecked(version) ==
    gr' = [IdleReader EXCEPT !.version = version, !.pc = "wait_first"]

\* get_applied_rowsets, lines 1650-1655: the unlocked read of _error
GetAppliedRowsetsEnter(version) ==
    gr' = IF error
          THEN ReaderFails(version, "InternalError", "error")
          ELSE [IdleReader EXCEPT !.version = version, !.pc = "wait_first"]

\* a call of get_applied_rowsets with any version
GetAppliedRowsetsCall ==
    /\ ~crashed
    /\ gr.pc = "idle"
    /\ BeginCall
    /\ \E version \in 1..MaxVersion : GetAppliedRowsetsEnter(version)
    /\ UNCHANGED <<tablet_vars, rc, da, cp, ex, ls>>

\* _wait_for_version, lines 871-874: the first test under _lock
WaitForVersionFirst ==
    /\ ~crashed
    /\ gr.pc = "wait_first"
    /\ gr' = IF ~VersionLess(AppliedVersion, EditVersion(gr.version, 0))
             THEN [gr EXCEPT !.pc = "scan"]
             ELSE [gr EXCEPT !.pc = "waiting"]
    /\ UNCHANGED <<tablet_vars, num_calls, arrived, join_vars, component_vars, rc, da, cp, ex, ls>>

\* the test of lines 889-890 left out
NeverBeyondCommitted(version, vs, pending) == FALSE

\* lines 889-890: the version is beyond the last log entry and beyond every
\* pending commit
BeyondCommitted(version, vs, pending) ==
    /\ VersionLess(Last(vs).version, version)
    /\ \/ DOMAIN pending = {}
       \/ MaxOf(DOMAIN pending) < version.major

\* a wait loop that never gives up
WaitNeverTimedOut(reader) == FALSE

\* line 896: now - wait_start > timeout_ms
WaitTimedOut(reader) == reader.elapsed

\* the clock of a blocked reader passes wait_start + timeout_ms (lines 875, 896)
WaitTimeElapses ==
    /\ ~crashed
    /\ gr.pc = "waiting"
    /\ ~gr.elapsed
    /\ gr' = [gr EXCEPT !.elapsed = TRUE]
    /\ UNCHANGED <<tablet_vars, num_calls, arrived, join_vars, component_vars, rc, da, cp, ex, ls>>

\* _wait_for_version, lines 876-902: one round of the loop after wait_for
\* returned (notified, or its 2 seconds elapsed); timed_out: more than
\* timeout_ms have passed since the wait started
WaitForVersionWake ==
    /\ ~crashed
    /\ gr.pc = "waiting"
    /\ LET version == EditVersion(gr.version, 0)
           timed_out == WaitTimedOut(gr)
       IN gr' = IF error
                  THEN [gr EXCEPT !.pc = "scan", !.notified = FALSE, !.elapsed = FALSE]
                  ELSE IF ~VersionLess(AppliedVersion, version)
                  THEN [gr EXCEPT !.pc = "scan", !.notified = FALSE, !.elapsed = FALSE]
                  ELSE IF BeyondCommitted(version, versions, pending_commits)
                  THEN ReaderFails(gr.version, "InternalError", "beyond")
                  ELSE IF timed_out
                  THEN ReaderFails(gr.version, "TimedOut", "timed_out")
                  ELSE [gr EXCEPT !.notified = FALSE]
    /\ UNCHANGED <<tablet_vars, num_calls, arrived, join_vars, component_vars, rc, da, cp, ex, ls>>

\* the scan started at the last entry of the log instead of the applied one
ScanFromLast(vs, idx, version) ==
    LET found == {i \in 0..(Len(vs) - 1) : vs[i + 1].version.major = version}
    IN IF found = {} THEN -1 ELSE MaxOf(found)

\* get_applied_rowsets, lines 1659-1680: the index (0-based) of the entry the
\* scan from _apply_version_idx down to 0 stops at, or -1
ScanApplied(vs, idx, version) ==
    LET found == {i \in 0..idx : vs[i + 1].version.major = version}
    IN IF found = {} THEN -1 ELSE MaxOf(found)

\* get_applied_rowsets, lines 1658-1680: under _lock
GetAppliedRowsetsScan ==
    /\ ~crashed
    /\ gr.pc = "scan"
    /\ LET i == ScanApplied(versions, apply_version_idx, gr.version)
       IN gr' = IF i = -1 THEN ReaderFails(gr.version, "NotFound", "no_entry")
                ELSE IF \E rsid \in SeqToSet(versions[i + 1].rowsets) : rsid \notin DOMAIN rowsets
                THEN ReaderFails(gr.version, "NotFound", "no_rowset")
                ELSE [gr EXCEPT !.pc = "idle", !.status = "OK", !.path = "found",
                                !.result = [k \in 1..Len(versions[i + 1].rowsets) |->
                                               rowsets[versions[i + 1].rowsets[k]]]]
    /\ UNCHANGED <<tablet_vars, num_calls, arrived, join_vars, component_vars, rc, da, cp, ex, ls>>

\* ------------------------------------------------------------------------
\* remove_expired_versions
\* ------------------------------------------------------------------------
IdleExpire == [pc |-> "idle", expire_time |-> 0, expired |-> <<>>]

\* the values of expire_time that tell the log entries apart: the creation
\* time of an entry, or a time before all of them
ExpireTimes == {0} \cup {versions[i].creation_time : i \in 1..Len(versions)}

\* remove_expired_versions, lines 1234-1237: the unlocked read of _error
RemoveExpiredVersionsCall ==
    /\ ~crashed
    /\ ex.pc = "idle"
    /\ BeginCall
    /\ ~error
    /\ \E expire_time \in ExpireTimes :
         ex' = [IdleExpire EXCEPT !.pc = "erase", !.expire_time = expire_time]
    /\ UNCHANGED <<tablet_vars, rc, da, cp, gr, ls>>

\* _erase_expired_versions, line 1197: the number of entries the loop moves
RECURSIVE NumExpired(_, _, _, _)
NumExpired(vs, idx, expire_time, i) ==
    IF i < idx /\ vs[i + 1].creation_time <= expire_time
    THEN NumExpired(vs, idx, expire_time, i + 1)
    ELSE i

\* _erase_expired_versions, lines 1193-1203: under _lock
EraseExpiredVersions ==
    /\ ~crashed
    /\ ex.pc = "erase"
    /\ LET n == NumExpired(versions, apply_version_idx, ex.expire_time, 0)
       IN /\ versions' = SubSeq(versions, n + 1, Len(versions))
          /\ apply_version_idx' = apply_version_idx - n
          /\ ex' = [IdleExpire EXCEPT !.expired = SubSeq(versions, 1, n),
                                      !.pc = IF n = 0 THEN "remove_unused" ELSE "collect"]
    /\ UNCHANGED <<pending_commits, rowsets, rowset_stats, next_rowset_id, next_log_id,
                   error, apply_running, apply_stopped, compaction_running, unused_rowsets,
                   del_vectors, apply_queue, crashed, num_calls, arrived, join_vars, component_vars, rc, da, cp, gr, ls>>

\* _active_rowsets, lines 1224-1231
ActiveRowsets(vs) == UNION {SeqToSet(vs[i].rowsets) : i \in 1..Len(vs)}

\* every rowset id of the expired entries, listed by a retained entry or not
ExpiredRowsetIds(expired, vs) == ActiveRowsets(expired)

\* remove_expired_versions, lines 1245-1255: unused_rid, the ids of the
\* expired entries that are not in active_rid
UnusedRowsetIds(expired, vs) ==
    LET active_rid == ActiveRowsets(vs)
    IN {expired_rid \in ActiveRowsets(expired) : expired_rid \notin active_rid}

\* remove_expired_versions, lines 1246-1266: the rowsets of the expired
\* entries that no retained entry lists go to the unused queue. An id that
\* load_snapshot has taken out of _rowsets in the meantime makes find() return
\* end(): the DCHECK of line 1259 aborts, and without it the end iterator is
\* dereferenced
RemoveExpiredRowsets ==
    /\ ~crashed
    /\ ex.pc = "collect"
    /\ LET unused_rid == UnusedRowsetIds(ex.expired, versions)
       IN IF unused_rid \subseteq DOMAIN rowsets
          THEN /\ unused_rowsets' = unused_rowsets \cup {rowsets[id] : id \in unused_rid}
               /\ rowsets' = [id \in (DOMAIN rowsets) \ unused_rid |-> rowsets[id]]
               /\ rowset_stats' =
                      [id \in (DOMAIN rowset_stats) \ unused_rid |-> rowset_stats[id]]
               /\ ex' = [ex EXCEPT !.pc = "remove_unused", !.expired = <<>>]
               /\ UNCHANGED crashed
          ELSE /\ crashed' = TRUE
               /\ UNCHANGED <<unused_rowsets, rowsets, rowset_stats, ex>>
    /\ UNCHANGED <<versions, apply_version_idx, pending_commits, next_rowset_id, next_log_id,
                   error, apply_running, apply_stopped, compaction_running, del_vectors,
                   apply_queue, num_calls, arrived, join_vars, component_vars, rc, da, cp, gr, ls>>

\* the reference test that lets every rowset through
NeverReferenced(rowset, reader, compactions) == FALSE

\* _remove_unused_rowsets, line 1816: rowset.use_count() > 1. Besides the
\* pointer taken from the queue, the references to a rowset that has left
\* _rowsets are those of the vector get_applied_rowsets gave to its caller
\* and those of input_rowsets in a _do_compaction that has not returned
StillReferenced(rowset, reader, compactions) ==
    \/ rowset \in SeqToSet(reader.result)
    \/ \E t \in DOMAIN compactions : rowset \in SeqToSet(compactions[t].input_rowsets)

\* _remove_unused_rowsets, lines 1812-1841: a rowset that is still referenced,
\* or whose metadata cannot be deleted (delete_failed), is put back
RemoveUnusedRowsets ==
    /\ ~crashed
    /\ ex.pc = "remove_unused"
    /\ \E delete_failed \in SUBSET unused_rowsets :
         LET skipped_rowsets ==
                 {rowset \in unused_rowsets :
                     StillReferenced(rowset, gr, cp) \/ rowset \in delete_failed}
         IN unused_rowsets' = skipped_rowsets
    /\ ex' = IdleExpire
    /\ UNCHANGED <<versions, apply_version_idx, pending_commits, rowsets, rowset_stats,
                   next_rowset_id, next_log_id, error, apply_running, apply_stopped,
                   compaction_running, del_vectors, apply_queue, crashed, num_calls, arrived, join_vars, component_vars,
                   rc, da, cp, gr, ls>>

\* ------------------------------------------------------------------------
\* load_snapshot (SNAPSHOT_TYPE_FULL)
\* ------------------------------------------------------------------------
IdleLoad == [pc |-> "idle", snapshot_version |-> 0, rowset |-> NoRowset, status |-> "none"]

\* the rowset of a full snapshot taken at snapshot_version; its rowset_seg_id
\* in the snapshot is 0 and its delete vectors are empty
SnapshotRowset(snapshot_version) == Rowset("snapshot", snapshot_version, 1)

\* load_snapshot, lines 1889-1891: the unlocked read of _error
LoadSnapshotCall ==
    /\ ~crashed
    /\ ls.pc = "idle"
    /\ BeginCall
    /\ \E snapshot_version \in 1..MaxVersion :
         ls' = IF error
               THEN [IdleLoad EXCEPT !.status = "InternalError"]
               ELSE [IdleLoad EXCEPT !.snapshot_version = snapshot_version,
                                     !.rowset = SnapshotRowset(snapshot_version),
                                     !.pc = "check_version"]
    /\ UNCHANGED <<tablet_vars, rc, da, cp, gr, ex>>

\* load_snapshot, lines 1946-1948: the version test before the locks are taken
LoadSnapshotCheckVersion ==
    /\ ~crashed
    /\ ls.pc = "check_version"
    /\ ls' = IF ls.snapshot_version <= Last(versions).version.major
             THEN [IdleLoad EXCEPT !.status = "Cancelled"]
             ELSE [ls EXCEPT !.pc = "stop"]
    /\ UNCHANGED <<tablet_vars, num_calls, arrived, join_vars, component_vars, rc, da, cp, gr, ex>>

\* _stop_and_wait_apply_done, line 675: _apply_stopped = true
StopApply ==
    /\ ~crashed
    /\ ls.pc = "stop"
    /\ apply_stopped' = TRUE
    /\ ls' = [ls EXCEPT !.pc = "wait_apply"]
    /\ UNCHANGED <<versions, apply_version_idx, pending_commits, rowsets, rowset_stats,
                   next_rowset_id, next_log_id, error, apply_running, compaction_running,
                   unused_rowsets, del_vectors, apply_queue, crashed, num_calls, arrived, join_vars, component_vars,
                   rc, da, cp, gr, ex>>

\* _stop_and_wait_apply_done, lines 676-679: blocked while _apply_running
WaitApplyDone ==
    /\ ~crashed
    /\ ls.pc = "wait_apply"
    /\ ~apply_running
    /\ ls' = [ls EXCEPT !.pc = "locked"]
    /\ UNCHANGED <<tablet_vars, num_calls, arrived, join_vars, component_vars, rc, da, cp, gr, ex>>

\* load_snapshot, lines 1969-2065: under _lock, _rowsets_lock and
\* _rowset_stats_lock. prepare_ok: the batch was built (no CHECK_FAIL before
\* _next_rowset_id is assigned); write_ok: put_tablet_meta and write_batch succeed
LoadSnapshotLocked ==
    /\ ~crashed
    /\ ls.pc = "locked"
    /\ \E rowsets_ok \in BOOLEAN, prepare_ok \in BOOLEAN, write_ok \in BOOLEAN,
          writes_ok \in 0..Cardinality(DOMAIN pending_commits) :
         IF ls.snapshot_version <= Last(versions).version.major
         THEN /\ ls' = [ls EXCEPT !.pc = "defer", !.status = "Cancelled"]
              /\ UNCHANGED <<versions, apply_version_idx, pending_commits, rowsets,
                             rowset_stats, next_rowset_id, next_log_id, error,
                             unused_rowsets, del_vectors, gr>>
         ELSE IF ~rowsets_ok
         THEN /\ ls' = [ls EXCEPT !.pc = "defer", !.status = "InternalError"]
              /\ UNCHANGED <<versions, apply_version_idx, pending_commits, rowsets,
                             rowset_stats, next_rowset_id, next_log_id, error,
                             unused_rowsets, del_vectors, gr>>
         ELSE LET new_id == 0 + next_rowset_id
                  new_next_rowset_id ==
                      MaxNat(next_rowset_id, new_id + MaxNat(1, ls.rowset.num_segments))
                  new_rowsets == [id \in {new_id} |-> ls.rowset]
                  new_version == EditVersionInfo(EditVersion(ls.snapshot_version, 0),
                                                 Now(TabletState), <<new_id>>, <<>>, <<>>)
                  new_del_vectors ==
                      [s \in DOMAIN del_vectors \cup SegmentIds(new_id, ls.rowset) |->
                          IF s \in SegmentIds(new_id, ls.rowset) THEN {} ELSE del_vectors[s]]
                  T == [versions |-> <<new_version>>, rowsets |-> new_rowsets,
                        rowset_stats |-> [id \in {new_id} |-> NewRowsetStats(ls.rowset)],
                        next_rowset_id |-> new_next_rowset_id, next_log_id |-> next_log_id]
                  r == TryCommitPendingsUnlocked(T, pending_commits, writes_ok)
              IN /\ unused_rowsets' = unused_rowsets \cup {rowsets[id] : id \in DOMAIN rowsets}
                 /\ apply_version_idx' = 0
                 /\ IF ~prepare_ok \/ ~write_ok
                    THEN /\ versions' = <<new_version>>
                         /\ rowsets' = new_rowsets
                         /\ rowset_stats' = EmptyMap
                         /\ next_rowset_id' = IF prepare_ok THEN new_next_rowset_id
                                              ELSE next_rowset_id
                         /\ error' = TRUE
                         /\ gr' = Notify(gr)
                         /\ ls' = [ls EXCEPT !.pc = "defer", !.status = "InternalError"]
                         /\ UNCHANGED <<pending_commits, next_log_id, del_vectors>>
                    ELSE /\ versions' = r.T.versions
                         /\ rowsets' = r.T.rowsets
                         /\ rowset_stats' = r.T.rowset_stats
                         /\ next_rowset_id' = r.T.next_rowset_id
                         /\ next_log_id' = r.T.next_log_id
                         /\ pending_commits' = r.pending
                         /\ del_vectors' = new_del_vectors
                         /\ gr' = Notify(gr)
                         /\ ls' = [ls EXCEPT !.pc = "defer", !.status = "OK"]
                         /\ UNCHANGED error
    /\ UNCHANGED <<apply_running, apply_stopped, compaction_running, apply_queue, crashed,
                   num_calls, arrived, join_vars, component_vars, rc, da, cp, ex>>

\* load_snapshot, lines 1955-1961: the DeferOp restarts the apply thread
LoadSnapshotDefer ==
    /\ ~crashed
    /\ ls.pc = "defer"
    /\ \E submit_ok \in BOOLEAN :
         IF error
         THEN UNCHANGED <<apply_stopped, apply_running, apply_queue, error, gr>>
         ELSE LET c == CheckForApply(FALSE, apply_running, apply_queue, error,
                                     apply_version_idx, Len(versions), submit_ok)
              IN /\ apply_stopped' = FALSE
                 /\ apply_running' = c.apply_running
                 /\ apply_queue' = c.apply_queue
                 /\ error' = c.error
                 /\ gr' = IF c.notify THEN Notify(gr) ELSE gr
    /\ ls' = [IdleLoad EXCEPT !.status = ls.status]
    /\ UNCHANGED <<versions, apply_version_idx, pending_commits, rowsets, rowset_stats,
                   next_rowset_id, next_log_id, compaction_running, unused_rowsets,
                   del_vectors, crashed, num_calls, arrived, join_vars, component_vars, rc, da, cp, ex>>

\* ------------------------------------------------------------------------
\* The specification
\* ------------------------------------------------------------------------
\* a tablet reopened with the compaction of version 2 committed but not yet
\* applied: _load_from_pb rebuilt the log and _check_for_apply submitted the
\* apply task; _compaction_running starts false
InitRecovered ==
    /\ versions = <<EditVersionInfo(EditVersion(2, 0), 0, <<0>>, <<0>>, <<>>),
                    EditVersionInfo(EditVersion(2, 1), 2, <<1>>, <<>>,
                                    <<[start_version |-> EditVersion(2, 0), inputs |-> <<0>>,
                                       output |-> 1]>>)>>
    /\ apply_version_idx = 0
    /\ rowsets = [id \in {0, 1} |-> IF id = 0 THEN InputRowset(2) ELSE OutputRowset(0, 1)]
    /\ rowset_stats = [id \in {0, 1} |-> NewRowsetStats(rowsets[id])]
    /\ next_rowset_id = 2
    /\ next_log_id = 3
    /\ del_vectors = [s \in {0} |-> {}]
    /\ apply_running = TRUE
    /\ apply_queue = 1

\* the tablet's threads before their first call
IdleThreads ==
    /\ da = IdleApply
    /\ cp = [t \in CompactionThreads |-> IdleCompaction]
    /\ gr = IdleReader
    /\ ex = IdleExpire
    /\ ls = IdleLoad

Init ==
    /\ InitCommon
    /\ InitFresh \/ InitRecovered
    /\ NoJoin
    /\ NoComponents
    /\ da = IdleApply
    /\ cp = [t \in CompactionThreads |-> IdleCompaction]
    /\ gr = IdleReader
    /\ ex = IdleExpire
    /\ ls = IdleLoad

Next ==
    \/ RowsetCommitCall
    \/ RowsetCommitIgnore
    \/ RowsetCommitPending
    \/ RowsetCommitInOrder
    \/ ApplyStart
    \/ ApplyWhile
    \/ ApplyPick
    \/ ApplyRowsetPrepare
    \/ ApplyMark
    \/ ApplyCompactionPrepare
    \/ ApplyWrite
    \/ ApplyCompactionStats
    \/ ApplyUnmark
    \/ ApplyCheckError
    \/ ApplyExit
    \/ \E t \in CompactionThreads : CompactionCall(t)
    \/ \E t \in CompactionThreads : CompactionCas(t)
    \/ \E t \in CompactionThreads : CompactionSelectVersion(t)
    \/ \E t \in CompactionThreads : CompactionSelectInputs(t)
    \/ \E t \in CompactionThreads : CompactionDo(t)
    \/ \E t \in CompactionThreads : CompactionCommit(t)
    \/ \E t \in CompactionThreads : CompactionReturn(t)
    \/ \E t \in CompactionThreads : CompactionFail(t)
    \/ GetAppliedRowsetsCall
    \/ WaitForVersionFirst
    \/ WaitTimeElapses
    \/ WaitForVersionWake
    \/ GetAppliedRowsetsScan
    \/ RemoveExpiredVersionsCall
    \/ EraseExpiredVersions
    \/ RemoveExpiredRowsets
    \/ RemoveUnusedRowsets
    \/ LoadSnapshotCall
    \/ LoadSnapshotCheckVersion
    \/ StopApply
    \/ WaitApplyDone
    \/ LoadSnapshotLocked
    \/ LoadSnapshotDefer

Spec == Init /\ [][Next]_vars

\* a committer that floods the pending buffer of a tablet on which nothing
\* else runs
NextFlood ==
    \/ FloodCommitCall
    \/ RowsetCommitIgnore
    \/ RowsetCommitPending

SpecFlood == Init /\ [][NextFlood]_vars

\* a committer that sends each version of a contiguous range after the head of
\* a new tablet once, in any order; no metadata write fails and the apply
\* task, once submitted, is not yet scheduled
OrderVersions == 2..MaxOrderVersion

InitOrder ==
    /\ Init
    /\ InitFresh

\* a call of rowset_commit by that committer
OrderCommitCall ==
    /\ ~crashed
    /\ rc.pc = "idle"
    /\ \E version \in OrderVersions \ arrived :
         /\ RowsetCommitEnter(version)
         /\ arrived' = arrived \cup {version}
         /\ UNCHANGED <<join_vars, component_vars>>
    /\ UNCHANGED <<tablet_vars, num_calls, da, cp, gr, ex, ls>>

\* rowset_commit, lines 427-457, when pending_rowset_commit succeeds
OrderCommitPending ==
    /\ RowsetCommitPending
    /\ rc'.path = "pending_added"

\* rowset_commit, lines 458-467, when every rowset_commit write succeeds
OrderCommitInOrder ==
    /\ RowsetCommitInOrder
    /\ rc'.path \in {"committed", "committed_promoted"}

NextOrder ==
    \/ OrderCommitCall
    \/ OrderCommitPending
    \/ OrderCommitInOrder

SpecOrder == InitOrder /\ [][NextOrder]_vars

\* readers and the ordered committer on a new tablet whose apply task is not
\* scheduled: wait_for returns after at most 2 seconds, the clock advances and
\* a reader that holds _lock runs on
NextWait ==
    \/ OrderCommitCall
    \/ RowsetCommitPending
    \/ RowsetCommitInOrder
    \/ GetAppliedRowsetsCall
    \/ WaitForVersionFirst
    \/ WaitTimeElapses
    \/ WaitForVersionWake
    \/ GetAppliedRowsetsScan

SpecWait ==
    /\ InitOrder
    /\ [][NextWait]_vars
    /\ WF_vars(WaitForVersionFirst)
    /\ WF_vars(WaitTimeElapses)
    /\ WF_vars(WaitForVersionWake)
    /\ WF_vars(GetAppliedRowsetsScan)

\* Commits interleaved with the shutdown of the apply task: _check_for_apply
\* reads _apply_stopped (line 606) and takes _apply_running_lock (line 609) in
\* two steps, and _stop_and_wait_apply_done runs without _lock
\* a call of rowset_commit with a version that has not been sent
StopCommitCall ==
    /\ ~crashed
    /\ rc.pc = "idle"
    /\ \E version \in (1..MaxVersion) \ arrived :
         /\ RowsetCommitEnter(version)
         /\ arrived' = arrived \cup {version}
         /\ UNCHANGED <<join_vars, component_vars>>
    /\ UNCHANGED <<tablet_vars, num_calls, da, cp, gr, ex, ls>>

\* the commit is inside _check_for_apply, past the test of _apply_stopped,
\* and holds _lock
InCheckForApply == rc.pc = "check_for_apply"

\* rowset_commit, lines 458-466, and _check_for_apply up to line 608: the
\* in-order commit up to the read of _apply_stopped
StopCommitInOrder ==
    /\ ~crashed
    /\ rc.pc = "lock"
    /\ ~IsDuplicate(rc.version, versions)
    /\ ~IsOutOfOrder(rc.version, versions)
    /\ \E write_ok \in BOOLEAN, writes_ok \in 0..Cardinality(DOMAIN pending_commits) :
         IF ~write_ok
         THEN /\ RowsetCommitReturn("MetaError", "commit_failed")
              /\ UNCHANGED <<versions, rowsets, rowset_stats, next_rowset_id, next_log_id,
                             pending_commits>>
         ELSE LET committed == RowsetCommitUnlocked(TabletState, rc.version, rc.rowset)
                  r == TryCommitPendingsUnlocked(committed, pending_commits, writes_ok)
                  path == IF r.failed THEN "committed_promotion_failed"
                          ELSE IF r.pending # pending_commits THEN "committed_promoted"
                          ELSE "committed"
              IN /\ versions' = r.T.versions
                 /\ rowsets' = r.T.rowsets
                 /\ rowset_stats' = r.T.rowset_stats
                 /\ next_rowset_id' = r.T.next_rowset_id
                 /\ next_log_id' = r.T.next_log_id
                 /\ pending_commits' = r.pending
                 /\ IF apply_stopped
                    THEN RowsetCommitReturn("OK", path)
                    ELSE rc' = [rc EXCEPT !.pc = "check_for_apply", !.path = path]
    /\ UNCHANGED <<apply_version_idx, apply_running, apply_stopped, apply_queue, error,
                   compaction_running, unused_rowsets, del_vectors, crashed, num_calls,
                   arrived, join_vars, component_vars, da, cp, gr, ex, ls>>

\* _check_for_apply, lines 609-623, and the return of rowset_commit
CheckForApplyLocked ==
    /\ ~crashed
    /\ InCheckForApply
    /\ \E submit_ok \in BOOLEAN :
         LET c == CheckForApply(FALSE, apply_running, apply_queue, error,
                                apply_version_idx, Len(versions), submit_ok)
         IN /\ apply_running' = c.apply_running
            /\ apply_queue' = c.apply_queue
            /\ error' = c.error
            /\ gr' = IF c.notify THEN Notify(gr) ELSE gr
    /\ RowsetCommitReturn("OK", rc.path)
    /\ UNCHANGED <<versions, apply_version_idx, pending_commits, rowsets, rowset_stats,
                   next_rowset_id, next_log_id, apply_stopped, compaction_running,
                   unused_rowsets, del_vectors, crashed, num_calls, arrived, join_vars, component_vars, da, cp, ex, ls>>

\* the steps of the other threads that take _lock wait for the commit
StopApplyPick == ~InCheckForApply /\ ApplyPick

StopApplyWrite == ~InCheckForApply /\ ApplyWrite

StopLoadSnapshotLocked == ~InCheckForApply /\ LoadSnapshotLocked

NextStop ==
    \/ StopCommitCall
    \/ RowsetCommitIgnore
    \/ RowsetCommitPending
    \/ StopCommitInOrder
    \/ CheckForApplyLocked
    \/ ApplyStart
    \/ ApplyWhile
    \/ StopApplyPick
    \/ ApplyRowsetPrepare
    \/ ApplyMark
    \/ ApplyCompactionPrepare
    \/ StopApplyWrite
    \/ ApplyCompactionStats
    \/ ApplyUnmark
    \/ ApplyCheckError
    \/ ApplyExit
    \/ LoadSnapshotCall
    \/ LoadSnapshotCheckVersion
    \/ StopApply
    \/ WaitApplyDone
    \/ StopLoadSnapshotLocked
    \/ LoadSnapshotDefer

SpecStop == Init /\ [][NextStop]_vars

\* The selection of compaction inputs on tablets whose rowsets are large
\* enough for the scores and the thresholds to matter
MaxRowsets == 3

\* statistics of a rowset of one segment: small and fully dead, large and
\* fully dead, live with many rows, live with more rows than the slack
\* allows, partly deleted with many bytes, never deleted with many bytes
\* (negative score), small and partly deleted
StatsChoices ==
    {[num_segments |-> 1, num_rows |-> 2, num_dels |-> 2, byte_size |-> 2],
     [num_segments |-> 1, num_rows |-> 12, num_dels |-> 12, byte_size |-> 400000000],
     [num_segments |-> 1, num_rows |-> 6000000, num_dels |-> 0, byte_size |-> 6000000],
     [num_segments |-> 1, num_rows |-> 16000000, num_dels |-> 0, byte_size |-> 16000000],
     [num_segments |-> 1, num_rows |-> 12, num_dels |-> 3, byte_size |-> 400000000],
     [num_segments |-> 1, num_rows |-> 12, num_dels |-> 0, byte_size |-> 400000000],
     [num_segments |-> 1, num_rows |-> 3, num_dels |-> 1, byte_size |-> 3]}

\* a tablet whose applied version lists MaxRowsets rowsets with any of the
\* statistics; the log entries before it have expired. The delete vectors are
\* in the metadata store and the selection does not read them
InitSelect ==
    /\ InitCommon
    /\ NoJoin
    /\ NoComponents
    /\ versions = <<EditVersionInfo(EditVersion(MaxRowsets + 1, 0), MaxRowsets,
                                    [i \in 1..MaxRowsets |-> i - 1], <<MaxRowsets - 1>>,
                                    <<>>)>>
    /\ apply_version_idx = 0
    /\ rowset_stats \in [0..(MaxRowsets - 1) -> StatsChoices]
    /\ rowsets = [id \in 0..(MaxRowsets - 1) |->
                     [rowset_id |-> <<"txn", id + 2>>,
                      num_segments |-> rowset_stats[id].num_segments,
                      segment_rows |-> rowset_stats[id].num_rows,
                      num_rows |-> rowset_stats[id].num_rows,
                      data_disk_size |-> rowset_stats[id].byte_size]]
    /\ next_rowset_id = MaxRowsets
    /\ next_log_id = MaxRowsets + 1
    /\ del_vectors = EmptyMap
    /\ apply_running = FALSE
    /\ apply_queue = 0
    /\ da = IdleApply
    /\ cp = [t \in CompactionThreads |-> IdleCompaction]
    /\ gr = IdleReader
    /\ ex = IdleExpire
    /\ ls = IdleLoad

NextSelect ==
    \/ \E t \in CompactionThreads : CompactionCall(t)
    \/ \E t \in CompactionThreads : CompactionCas(t)
    \/ \E t \in CompactionThreads : CompactionSelectVersion(t)
    \/ \E t \in CompactionThreads : CompactionSelectInputs(t)

SpecSelect == InitSelect /\ [][NextSelect]_vars

\* ------------------------------------------------------------------------
\* Hash join: the hash table of the join node (JoinHashTable _ht).
\* join_hash_map.h is not part of the sources; the table is modelled from
\* section 4.2 of the specification and from what join_hash_map_test.cpp
\* expects of it.
\* ------------------------------------------------------------------------
\* largest number of rows on the build side
MaxBuildRows == 3
\* largest number of rows of one probe chunk
MaxProbeRows == 3
\* config::vector_chunk_size, the number of rows of a full output chunk
\* (4096 in config.h)
vector_chunk_size == 4

\* the values of a key column
KeyValues == {0, 1}
\* a cell of a nullable key column: <<>> is NULL, <<v>> holds the value v
NullCell == <<>>
Cells == {NullCell} \cup {<<v>> : v \in KeyValues}

\* the key encodings and the number of key columns each is used with here:
\* one int column; two int columns packed into one 64-bit integer; two int
\* columns serialized into a slice
KeyEncodings == {"single", "fixed", "serialized"}
NumKeyColumns(encoding) == IF encoding = "single" THEN 1 ELSE 2

\* the four little-endian bytes of a 32-bit value
Int32Bytes(v) == <<v % 256, (v \div 256) % 256, (v \div 65536) % 256, (v \div 16777216) % 256>>

\* a row is the tuple of its cells in the key columns; its key is NULL when
\* any of them is (create_bools(.., 4) of the build tests)
IsNullRow(row) == \E c \in 1..Len(row) : row[c] = NullCell

\* the key of a row without NULL: the raw value, the packed integer
\* (c1 + c2 * 2^32, kept as its two 32-bit halves), or the slice of bytes
EncodeKey(encoding, row) ==
    CASE encoding = "single" -> row[1][1]
      [] encoding = "fixed" -> [lo |-> row[1][1], hi |-> row[2][1]]
      [] encoding = "serialized" -> Int32Bytes(row[1][1]) \o Int32Bytes(row[2][1])

\* every row of the given width, and every key an encoding produces
Rows(width) == [1..width -> Cells]
EncodedKeys(encoding) ==
    {EncodeKey(encoding, row) : row \in {r \in Rows(NumKeyColumns(encoding)) : ~IsNullRow(r)}}

\* JoinKeyHash: some function of the key; the table masks it to the bucket count
HashValues == {0, 1}
HashFunctions(encoding) == [EncodedKeys(encoding) -> HashValues]

RECURSIVE NextPowerOfTwo(_, _)
NextPowerOfTwo(p, n) == IF p >= n THEN p ELSE NextPowerOfTwo(2 * p, n)

\* JoinHashMapHelper::calc_bucket_size: the smallest power of two that is at
\* least twice the row count
calc_bucket_size(row_count) == NextPowerOfTwo(1, 2 * row_count)

\* JoinHashMapHelper::calc_bucket_num: the hash masked to the bucket count
calc_bucket_num(items, key) == items.hash[key] % items.bucket_size

\* the key cells of build row i (rows are numbered from 1, row 0 is reserved)
BuildRow(items, i) == [c \in 1..Len(items.key_columns) |-> items.key_columns[c][i]]

\* JoinHashTableItems before any chunk has been appended
NewTableItems(encoding, hash, join_type, with_other_conjunct) ==
    [encoding |-> encoding, hash |-> hash, join_type |-> join_type,
     with_other_conjunct |-> with_other_conjunct, right_to_nullable |-> FALSE,
     build_tuple_exist |-> FALSE, output_build_tuple_ids |-> {0, 1}, row_count |-> 0,
     key_columns |-> [c \in 1..NumKeyColumns(encoding) |-> <<>>],
     bucket_size |-> 0, first |-> <<>>, next |-> <<>>, built |-> FALSE]

\* JoinHashTable::append_chunk: the rows of the chunk follow the rows the key
\* columns hold
append_chunk(items, chunk) ==
    [items EXCEPT !.row_count = @ + Len(chunk),
                  !.key_columns = [c \in 1..Len(@) |-> @[c] \o [r \in 1..Len(chunk) |-> chunk[r][c]]]]

\* the build function's prepare(): first has one slot per bucket and next one
\* slot per row and one for row 0, all zero (prepare_table_items of the tests)
PrepareTable(items) ==
    [items EXCEPT !.bucket_size = calc_bucket_size(items.row_count),
                  !.first = [b \in 0..(calc_bucket_size(items.row_count) - 1) |-> 0],
                  !.next = [i \in 0..items.row_count |-> 0]]

RECURSIVE ConstructFrom(_, _)
\* the loop with every row inserted, a row with a NULL key under the default
\* value of its columns
ConstructSkipNothing(items, i) ==
    IF i > items.row_count THEN [items EXCEPT !.built = TRUE]
    ELSE IF IsNullRow(BuildRow(items, i))
    THEN LET bucket == calc_bucket_num(items, EncodeKey(items.encoding,
                           [c \in 1..Len(items.key_columns) |-> <<0>>]))
         IN ConstructFrom([items EXCEPT !.next[i] = items.first[bucket],
                                        !.first[bucket] = i], i + 1)
    ELSE LET bucket == calc_bucket_num(items, EncodeKey(items.encoding, BuildRow(items, i)))
         IN ConstructFrom([items EXCEPT !.next[i] = items.first[bucket],
                                        !.first[bucket] = i], i + 1)
\* the loop of construct_hash_table from row i on: a row with a NULL key is
\* not inserted, any other row becomes the head of its bucket's chain
ConstructFrom(items, i) ==
    IF i > items.row_count THEN [items EXCEPT !.built = TRUE]
    ELSE IF IsNullRow(BuildRow(items, i)) THEN ConstructFrom(items, i + 1)
    ELSE LET bucket == calc_bucket_num(items, EncodeKey(items.encoding, BuildRow(items, i)))
         IN ConstructFrom([items EXCEPT !.next[i] = items.first[bucket],
                                        !.first[bucket] = i], i + 1)

\* construct_hash_table: rows 1..row_count
construct_hash_table(items) == ConstructFrom(items, 1)

\* JoinHashTable::build: prepare, then construct
build(items) == construct_hash_table(PrepareTable(items))

\* HashTableProbeState before the first probe. Probe rows are numbered from 0.
\* probe_index and build_index hold the pairs written by the last call; when
\* the call stopped on a full chunk, the pair after the vector_chunk_size-th
\* is the one the next call starts its output with
NewProbeState ==
    [probe_row_count |-> 0, key_rows |-> <<>>, next |-> <<>>,
     cur_probe_index |-> 0, cur_row_match_count |-> 0, has_remain |-> FALSE,
     count |-> 0, probe_index |-> <<>>, build_index |-> <<>>,
     match_flag |-> "NORMAL", has_null_build_tuple |-> FALSE,
     build_match_index |-> <<>>, cur_build_index |-> 0]

\* the storage engine plays no part in the join specifications: a new tablet
\* that nobody calls
IdleTablet ==
    /\ InitCommon
    /\ InitFresh
    /\ IdleThreads

\* ------------------------------------------------------------------------
\* SpecBuild: chunks are appended to a table, then the table is built
\* ------------------------------------------------------------------------
\* the chunks of the build side: one or two rows
BuildChunks(encoding) ==
    UNION {[1..n -> Rows(NumKeyColumns(encoding))] : n \in 1..2}

InitBuild ==
    /\ IdleTablet
    /\ NoComponents
    /\ \E encoding \in KeyEncodings : \E hash \in HashFunctions(encoding) :
           table_items = NewTableItems(encoding, hash, "INNER_JOIN", FALSE)
    /\ probe_state = NewProbeState
    /\ node = <<>>
    /\ child = <<>>
    /\ returned = <<>>

\* _ht.append_chunk(chunk)
AppendChunk ==
    /\ ~table_items.built
    /\ \E chunk \in BuildChunks(table_items.encoding) :
           /\ table_items.row_count + Len(chunk) <= MaxBuildRows
           /\ table_items' = append_chunk(table_items, chunk)
    /\ UNCHANGED <<tablet_vars, num_calls, arrived, thread_vars, component_vars, probe_state, node, child,
                   returned>>

\* _ht.build(state)
Build ==
    /\ ~table_items.built
    /\ table_items' = build(table_items)
    /\ probe_state' = [probe_state EXCEPT
                           !.build_match_index = [i \in 0..table_items.row_count |-> 0]]
    /\ UNCHANGED <<tablet_vars, num_calls, arrived, thread_vars, component_vars, node, child, returned>>

NextBuild ==
    \/ AppendChunk
    \/ Build

SpecBuild == InitBuild /\ [][NextBuild]_vars

\* ------------------------------------------------------------------------
\* Hash join: probing the table (HashTableProbeState, the _probe_from_ht
\* family, JoinHashTable::probe), modelled from section 4.2 of the
\* specification and from the probe tests of join_hash_map_test.cpp
\* ------------------------------------------------------------------------
\* the key cells of probe row i
ProbeRow(ps, i) == ps.key_rows[i + 1]

\* lookup_init: every probe row starts at the head of its bucket's chain; a
\* probe row with a NULL key has no chain to walk
lookup_init(items, ps, key_rows) ==
    [ps EXCEPT !.probe_row_count = Len(key_rows),
               !.key_rows = key_rows,
               !.next = [i \in 0..(Len(key_rows) - 1) |->
                            IF IsNullRow(key_rows[i + 1]) THEN 0
                            ELSE items.first[calc_bucket_num(items,
                                     EncodeKey(items.encoding, key_rows[i + 1]))]],
               !.cur_probe_index = 0,
               !.cur_row_match_count = 0,
               !.has_null_build_tuple = FALSE]

\* the equality predicate of the encoding on build row index and probe row i
KeyEqual(items, ps, index, i) ==
    EncodeKey(items.encoding, BuildRow(items, index)) = EncodeKey(items.encoding, ProbeRow(ps, i))

\* does a hit on build row index add a pair to the output: the right semi
\* join without other conjunct emits a build row at its first hit, the right
\* anti join without other conjunct emits nothing while probing
EmitsHit(items, ps, index) ==
    CASE items.with_other_conjunct -> TRUE
      [] items.join_type = "RIGHT_SEMI_JOIN" -> ps.build_match_index[index] = 0
      [] items.join_type = "RIGHT_ANTI_JOIN" -> FALSE
      [] OTHER -> TRUE

\* does a hit set the hit bit of the build row while probing
MarksHit(items) ==
    /\ ~items.with_other_conjunct
    /\ items.join_type \in {"RIGHT_SEMI_JOIN", "RIGHT_ANTI_JOIN", "RIGHT_OUTER_JOIN"}

\* one more pair in the output arrays
EmitPair(ps, i, index) ==
    [ps EXCEPT !.probe_index = Append(@, i), !.build_index = Append(@, index)]

\* one_match of the probe functions: no probe row has two pairs
OneMatch(ps) ==
    \A k, l \in 1..Len(ps.probe_index) : ps.probe_index[k] = ps.probe_index[l] => k = l

\* the classification of a first probe of the inner join
AlwaysAllMatchOne(ps, first_probe) == "ALL_MATCH_ONE"
MatchFlag(ps, first_probe) ==
    IF ~first_probe \/ ~OneMatch(ps) THEN "NORMAL"
    ELSE IF Len(ps.probe_index) = ps.probe_row_count THEN "ALL_MATCH_ONE"
    ELSE IF 2 * Len(ps.probe_index) >= ps.probe_row_count THEN "MOST_MATCH_ONE"
    ELSE "NORMAL"

\* a full chunk that leaves the chain of probe row i where the call found it
ChunkFullKeepsChain(ps, i, rest) ==
    [ps EXCEPT !.cur_probe_index = i, !.has_remain = TRUE, !.count = vector_chunk_size]
\* RETURN_IF_CHUNK_FULL: the pair that does not fit has been written; the
\* call stops at probe row i, whose chain goes on at rest
ChunkFull(ps, i, rest) ==
    [ps EXCEPT !.next[i] = rest, !.cur_probe_index = i, !.has_remain = TRUE,
               !.count = vector_chunk_size]

\* PROBE_OVER: every probe row has been walked to the end of its chain
ProbeOver(items, ps, first_probe) ==
    [ps EXCEPT !.has_remain = FALSE, !.cur_probe_index = 0, !.cur_row_match_count = 0,
               !.count = Len(ps.probe_index),
               !.match_flag = IF items.join_type = "INNER_JOIN" /\ ~items.with_other_conjunct
                              THEN MatchFlag(ps, first_probe) ELSE "NORMAL"]

\* the loop of a probe function, at probe row i and build row index of its
\* chain
RECURSIVE ProbeWalk(_, _, _, _, _)
ProbeWalk(items, ps, first_probe, i, index) ==
    IF i >= ps.probe_row_count THEN ProbeOver(items, ps, first_probe)
    ELSE IF index = 0
    THEN \* the end of the chain of probe row i
         IF items.join_type = "LEFT_OUTER_JOIN" /\ ps.cur_row_match_count = 0
         THEN LET out == [EmitPair(ps, i, 0) EXCEPT !.has_null_build_tuple = TRUE]
              IN IF Len(out.probe_index) > vector_chunk_size
                 THEN ChunkFull(out, i, 0)
                 ELSE IF i + 1 < ps.probe_row_count
                      THEN ProbeWalk(items, out, first_probe, i + 1, out.next[i + 1])
                      ELSE ProbeOver(items, out, first_probe)
         ELSE LET out == [ps EXCEPT !.cur_row_match_count = 0]
              IN IF i + 1 < ps.probe_row_count
                 THEN ProbeWalk(items, out, first_probe, i + 1, out.next[i + 1])
                 ELSE ProbeOver(items, out, first_probe)
    ELSE IF KeyEqual(items, ps, index, i)
    THEN LET marked == IF MarksHit(items)
                       THEN [ps EXCEPT !.build_match_index[index] = 1] ELSE ps
         IN IF EmitsHit(items, ps, index)
            THEN LET out == [EmitPair(marked, i, index) EXCEPT !.cur_row_match_count = @ + 1]
                 IN IF Len(out.probe_index) > vector_chunk_size
                    THEN ChunkFull(out, i, items.next[index])
                    ELSE ProbeWalk(items, out, first_probe, i, items.next[index])
            ELSE ProbeWalk(items, marked, first_probe, i, items.next[index])
    ELSE ProbeWalk(items, ps, first_probe, i, items.next[index])

\* _probe_from_ht<true>: the first probe of a chunk starts at probe row 0
\* with empty output arrays
ProbeFirst(items, ps) ==
    LET start == [ps EXCEPT !.probe_index = <<>>, !.build_index = <<>>]
    IN IF ps.probe_row_count = 0 THEN ProbeOver(items, start, TRUE)
       ELSE ProbeWalk(items, start, TRUE, 0, start.next[0])

\* _probe_from_ht<false>: the pair that did not fit is the first of the
\* output; the walk goes on at cur_probe_index, or at the next row when the
\* chain of that row is at its end
ProbeAgain(items, ps) ==
    LET i == ps.cur_probe_index
        start == [ps EXCEPT !.probe_index = <<ps.probe_index[vector_chunk_size + 1]>>,
                            !.build_index = <<ps.build_index[vector_chunk_size + 1]>>]
    IN IF ps.next[i] # 0 THEN ProbeWalk(items, start, FALSE, i, ps.next[i])
       ELSE IF i + 1 < ps.probe_row_count
       THEN ProbeWalk(items, [start EXCEPT !.cur_row_match_count = 0], FALSE, i + 1,
                      ps.next[i + 1])
       ELSE ProbeOver(items, start, FALSE)

\* the search of JoinHashTable::probe: a call made while has_remain is false
\* is the first probe of a new chunk
probe(items, ps, key_rows) ==
    IF ps.has_remain THEN ProbeAgain(items, ps)
    ELSE ProbeFirst(items, lookup_init(items, ps, key_rows))

\* the pairs a call has put out: the first count pairs of the arrays
OutputPairs(ps) == [k \in 1..ps.count |-> <<ps.probe_index[k], ps.build_index[k]>>]

\* the probe rows of the output chunk. ALL_MATCH_ONE: the probe column as it
\* is; MOST_MATCH_ONE: the probe column filtered by probe_match_filter, which
\* is set for the rows that have a pair; NORMAL: the rows probe_index names
ProbeOutput(ps) ==
    CASE ps.match_flag = "ALL_MATCH_ONE" -> [k \in 1..ps.probe_row_count |-> k - 1]
      [] ps.match_flag = "MOST_MATCH_ONE" ->
             SortedSeq({i \in 0..(ps.probe_row_count - 1) :
                           \E k \in 1..ps.count : ps.probe_index[k] = i})
      [] OTHER -> [k \in 1..ps.count |-> ps.probe_index[k]]

\* the tuple column of the build chunk for a tuple id, row 0 included:
\* create_bools(.., 2) for tuple 0 and create_bools(.., 3) for tuple 1
BuildTupleColumn(tuple_id, j) == j % (tuple_id + 2) = 0

\* the tuple columns copied without a look at has_null_build_tuple
CopyTupleOutput(items, ps) ==
    [t \in {id \in items.output_build_tuple_ids :
                items.build_tuple_exist \/ items.right_to_nullable} |->
        [k \in 1..ps.count |->
            IF items.build_tuple_exist THEN BuildTupleColumn(t, ps.build_index[k]) ELSE TRUE]]
\* the tuple columns put out only when the build chunk has them
SkipNullableTupleOutput(items, ps) ==
    [t \in {id \in items.output_build_tuple_ids : items.build_tuple_exist} |->
        [k \in 1..ps.count |->
            IF ps.has_null_build_tuple /\ ps.build_index[k] = 0 THEN FALSE
            ELSE BuildTupleColumn(t, ps.build_index[k])]]
\* _build_tuple_output: for every output tuple id of the build side, a tuple
\* column is copied from the build chunk when the build chunk has one, and is
\* all true when it has none and right_to_nullable is set; a row with
\* build_index 0 is false when has_null_build_tuple is set. No column is
\* put out when the build chunk has none and right_to_nullable is not set
build_tuple_output(items, ps) ==
    [t \in {id \in items.output_build_tuple_ids :
                items.build_tuple_exist \/ items.right_to_nullable} |->
        [k \in 1..ps.count |->
            IF ps.has_null_build_tuple /\ ps.build_index[k] = 0 THEN FALSE
            ELSE IF items.build_tuple_exist THEN BuildTupleColumn(t, ps.build_index[k])
            ELSE TRUE]]

\* the chunk of a call of JoinHashTable::probe
OutputChunk(items, ps) ==
    [pairs |-> OutputPairs(ps), match_flag |-> ps.match_flag,
     probe_rows |-> ProbeOutput(ps), tuple_columns |-> build_tuple_output(items, ps)]

\* ------------------------------------------------------------------------
\* SpecProbe: a table of single keys is built, then chunks of probe rows are
\* probed, each until the table has no pair left for it. child is the chunk
\* being probed, returned the pairs of the calls made for it
\* ------------------------------------------------------------------------
\* has the build chunk tuple columns, and is right_to_nullable set
TupleChoices == {<<TRUE, FALSE>>, <<FALSE, TRUE>>, <<FALSE, FALSE>>}

\* the chunks of the probe side: their keys are NULL or one value, which the
\* build rows may have, or share the bucket of, or neither
ProbeChunks(encoding) ==
    UNION {[1..n -> [1..NumKeyColumns(encoding) -> {NullCell, <<0>>}]] : n \in 1..MaxProbeRows}

\* the hash functions of the specification: every key in one bucket, or
\* every key in its own
ProbeHashes == {[v \in KeyValues |-> 0], [v \in KeyValues |-> v]}

InitProbe ==
    /\ IdleTablet
    /\ NoComponents
    /\ \E hash \in ProbeHashes : \E join_type \in {"INNER_JOIN", "LEFT_OUTER_JOIN"} :
       \E tuples \in TupleChoices :
           table_items = [NewTableItems("single", hash, join_type, FALSE) EXCEPT
                             !.build_tuple_exist = tuples[1], !.right_to_nullable = tuples[2]]
    /\ probe_state = NewProbeState
    /\ node = <<>>
    /\ child = <<>>
    /\ returned = <<>>

\* _ht.probe with a new chunk
ProbeChunk ==
    /\ table_items.built
    /\ ~probe_state.has_remain
    /\ \E key_rows \in ProbeChunks(table_items.encoding) :
           /\ child' = key_rows
           /\ probe_state' = probe(table_items, probe_state, key_rows)
    /\ returned' = <<OutputChunk(table_items, probe_state')>>
    /\ UNCHANGED <<tablet_vars, num_calls, arrived, thread_vars, component_vars, table_items, node>>

\* _ht.probe with the chunk of the call before, which left has_remain set
ProbeRemaining ==
    /\ table_items.built
    /\ probe_state.has_remain
    /\ probe_state' = probe(table_items, probe_state, child)
    /\ returned' = Append(returned, OutputChunk(table_items, probe_state'))
    /\ UNCHANGED <<tablet_vars, num_calls, arrived, thread_vars, component_vars, table_items, node, child>>

NextProbe ==
    \/ AppendChunk
    \/ Build
    \/ ProbeChunk
    \/ ProbeRemaining

SpecProbe == InitProbe /\ [][NextProbe]_vars

\* ------------------------------------------------------------------------
\* Hash join: the node (HashJoinNode::open, get_next, _probe, _probe_remain
\* of hash_join_node.cpp). The plan has no conjunct on the output of the join
\* and no runtime filter; the children and the expressions do not fail.
\* ------------------------------------------------------------------------
\* largest number of chunks the probe side returns
MaxProbeChunks == 5

\* a number below 2^33 as its digits <<carry, high, low>> in base 65536: the
\* row counts of open() are compared with UINT32_MAX, which is beyond the
\* integers of the model checker
Limbs(n) == <<0, n \div 65536, n % 65536>>
LimbsAdd(a, b) ==
    LET low == a[3] + b[3]
        high == a[2] + b[2] + (low \div 65536)
    IN <<a[1] + b[1] + (high \div 65536), high % 65536, low % 65536>>
LimbsGeq(a, b) ==
    \/ a[1] > b[1]
    \/ a[1] = b[1] /\ a[2] > b[2]
    \/ a[1] = b[1] /\ a[2] = b[2] /\ a[3] >= b[3]
\* UINT32_MAX, 4294967295
UINT32_MAX == <<0, 65535, 65535>>

\* the sum compared in the 32 bits of the row count
RowLimitWraps(row_count, num_rows) ==
    LimbsGeq(<<0, LimbsAdd(row_count, num_rows)[2], LimbsAdd(row_count, num_rows)[3]>>,
             UINT32_MAX)
\* line 173: _ht.get_row_count() + chunk->num_rows() >= UINT32_MAX, computed
\* in 64 bits
RowLimitReached(row_count, num_rows) == LimbsGeq(LimbsAdd(row_count, num_rows), UINT32_MAX)

\* the join types that fetch the remaining rows of the hash table when the
\* probe side is at its end (lines 276-277, 295-296)
RemainJoinTypes == {"RIGHT_OUTER_JOIN", "RIGHT_ANTI_JOIN", "FULL_OUTER_JOIN"}

\* the join type and the other join conjunct of the plan: none, or one that
\* holds for the rows whose build row has an odd index
JoinConfigs ==
    {<<"INNER_JOIN", "none">>, <<"LEFT_OUTER_JOIN", "none">>}
    \cup ({"RIGHT_SEMI_JOIN", "RIGHT_ANTI_JOIN", "RIGHT_OUTER_JOIN"} \X {"none", "build_odd"})

\* the node after prepare(); a chunk pointer that is nullptr is <<>>, the
\* chunks the node keeps have rows
NewNode(join_type, other_conjunct, limit) ==
    [pc |-> "open", status |-> "OK", join_type |-> join_type,
     other_conjunct |-> other_conjunct, limit |-> limit, num_rows_returned |-> 0,
     eos |-> FALSE, probe_eos |-> FALSE, build_eos |-> FALSE, ht_has_remain |-> FALSE,
     right_table_has_remain |-> TRUE, probing_chunk |-> <<>>,
     pre_left_input_chunk |-> <<>>]

\* ExecNode::reached_limit, exec_node.h line 205
reached_limit(n) == n.limit # -1 /\ n.num_rows_returned >= n.limit

\* the ids of the rows of a probe chunk
RowIds(chunk) == {chunk[k].id : k \in 1..Len(chunk)}

\* the key columns the probe expressions give for a chunk
KeyRowsOf(chunk) == [k \in 1..Len(chunk) |-> <<chunk[k].key>>]

\* the rows of s for which the filter is set
RECURSIVE FilterRows(_, _)
FilterRows(s, filter) ==
    IF s = <<>> THEN <<>>
    ELSE (IF Head(filter) THEN <<Head(s)>> ELSE <<>>) \o FilterRows(Tail(s), Tail(filter))

\* _calc_filter_for_other_conjunct, lines 587-621: the conjunct on each row
\* (a row is <<probe row id, build row>>)
calc_filter_for_other_conjunct(n, rows) ==
    [k \in 1..Len(rows) |-> n.other_conjunct = "build_odd" => rows[k][2] % 2 = 1]

\* JoinHashTable::remove_duplicate_index from row k on: a row that passes the
\* conjunct sets the hit bit of its build row; the right semi join keeps the
\* first such row of a build row only
RECURSIVE remove_duplicate_index(_, _, _, _, _)
remove_duplicate_index(items, ps, rows, filter, k) ==
    IF k > Len(rows) THEN [ps |-> ps, filter |-> filter]
    ELSE IF ~filter[k] THEN remove_duplicate_index(items, ps, rows, filter, k + 1)
    ELSE IF items.join_type = "RIGHT_SEMI_JOIN" /\ ps.build_match_index[rows[k][2]] = 1
    THEN remove_duplicate_index(items, ps, rows, [filter EXCEPT ![k] = FALSE], k + 1)
    ELSE remove_duplicate_index(items, [ps EXCEPT !.build_match_index[rows[k][2]] = 1],
                                rows, filter, k + 1)

\* _process_semi_join_with_other_conjunct, lines 664-673
process_semi_join_with_other_conjunct(n, items, ps, rows) ==
    LET r == remove_duplicate_index(items, ps, rows, calc_filter_for_other_conjunct(n, rows), 1)
    IN [ps |-> r.ps, rows |-> FilterRows(rows, r.filter)]

\* the right anti join handled as the right semi join is
KeepRightAntiRows(n, items, ps, rows) == process_semi_join_with_other_conjunct(n, items, ps, rows)
\* _process_right_anti_join_with_other_conjunct, lines 675-684
process_right_anti_join_with_other_conjunct(n, items, ps, rows) ==
    LET r == remove_duplicate_index(items, ps, rows, calc_filter_for_other_conjunct(n, rows), 1)
    IN [ps |-> r.ps, rows |-> <<>>]

\* _process_other_conjunct, lines 686-707, for the join types of JoinConfigs
process_other_conjunct(n, items, ps, rows) ==
    IF n.join_type = "RIGHT_ANTI_JOIN"
    THEN process_right_anti_join_with_other_conjunct(n, items, ps, rows)
    ELSE process_semi_join_with_other_conjunct(n, items, ps, rows)

\* JoinHashTable::probe_remain: the build rows without hit bit from
\* cur_build_index on, at most vector_chunk_size of them
RECURSIVE RemainRows(_, _, _, _)
RemainRows(items, ps, j, rows) ==
    IF j > items.row_count
    THEN [ps |-> [ps EXCEPT !.cur_build_index = j], rows |-> rows, has_remain |-> FALSE]
    ELSE IF Len(rows) = vector_chunk_size
    THEN [ps |-> [ps EXCEPT !.cur_build_index = j], rows |-> rows, has_remain |-> TRUE]
    ELSE RemainRows(items, ps, j + 1,
                    IF ps.build_match_index[j] = 0 THEN Append(rows, <<<<0, 0>>, j>>) ELSE rows)

probe_remain(items, ps) ==
    RemainRows(items, ps, IF ps.cur_build_index = 0 THEN 1 ELSE ps.cur_build_index, <<>>)

\* the end of get_next with a chunk, lines 318-335: the rows beyond the limit
\* are cut off
ReturnChunk(n, rows, from) ==
    LET total == n.num_rows_returned + Len(rows)
        cut == IF n.limit # -1 /\ total >= n.limit THEN total - n.limit ELSE 0
    IN /\ node' = [n EXCEPT !.pc = "opened", !.num_rows_returned = total - cut]
       /\ returned' = Append(returned, [rows |-> SubSeq(rows, 1, Len(rows) - cut),
                                        from |-> from, probe_eos |-> n.probe_eos])

\* the end of get_next with eos
ReturnEos(n) ==
    /\ node' = [n EXCEPT !.pc = "finished", !.eos = TRUE]
    /\ returned' = returned

\* open(), one turn of the loop of lines 155-183: a chunk of the build side
\* is fetched and appended; eos ends the loop
OpenFetch ==
    /\ node.pc = "open"
    /\ IF child.build = <<>>
       THEN /\ node' = [node EXCEPT !.pc = "build"]
            /\ UNCHANGED <<child, table_items>>
       ELSE LET chunk == Head(child.build)
            IN /\ child' = [child EXCEPT !.build = Tail(@)]
               /\ IF Len(chunk) <= 0
                  THEN UNCHANGED <<node, table_items>>
                  ELSE IF RowLimitReached(Limbs(table_items.row_count), Limbs(Len(chunk)))
                  THEN /\ node' = [node EXCEPT !.pc = "failed", !.status = "NotSupported"]
                       /\ UNCHANGED table_items
                  ELSE /\ table_items' = append_chunk(table_items, chunk)
                       /\ UNCHANGED node
    /\ UNCHANGED <<tablet_vars, num_calls, arrived, thread_vars, component_vars, probe_state, returned>>

\* open(), lines 185-245: the table is built; an inner join with an empty
\* build side is at its end
OpenBuild ==
    /\ node.pc = "build"
    /\ table_items' = build(table_items)
    /\ probe_state' = [probe_state EXCEPT
                           !.build_match_index = [i \in 0..table_items.row_count |-> 0]]
    /\ node' = [node EXCEPT !.pc = "opened",
                            !.eos = /\ table_items.row_count = 0
                                    /\ node.join_type \in {"INNER_JOIN", "LEFT_SEMI_JOIN"}]
    /\ UNCHANGED <<tablet_vars, num_calls, arrived, thread_vars, component_vars, child, returned>>

\* get_next, lines 252-311: the limit, the end of the stream, and the choice
\* between _probe and _probe_remain
GetNextCall ==
    /\ node.pc = "opened"
    /\ IF reached_limit(node) \/ node.eos THEN ReturnEos(node)
       ELSE IF ~node.probe_eos \/ node.ht_has_remain
       THEN node' = [node EXCEPT !.pc = "probe"] /\ returned' = returned
       ELSE IF ~node.build_eos /\ node.join_type \in RemainJoinTypes
       THEN node' = [node EXCEPT !.pc = "probe_remain"] /\ returned' = returned
       ELSE ReturnEos(node)
    /\ UNCHANGED <<tablet_vars, num_calls, arrived, thread_vars, component_vars, table_items, probe_state,
                   child>>

\* line 437: a chunk of the probe side is fetched when the table has nothing
\* left for the chunk before
AlwaysNeedsInput(n) == TRUE
NeedsInput(n) == ~n.ht_has_remain

\* _probe, one turn of the inner loop, lines 438-488: a chunk of the probe
\* side is fetched; small chunks are kept and merged
ProbeFetch ==
    /\ node.pc = "probe"
    /\ NeedsInput(node)
    /\ IF child.probe = <<>>
       THEN /\ UNCHANGED child
            /\ IF node.pre_left_input_chunk # <<>>
               THEN /\ node' = [node EXCEPT !.probe_eos = TRUE, !.pc = "ht_probe",
                                            !.probing_chunk = node.pre_left_input_chunk,
                                            !.pre_left_input_chunk = <<>>]
                    /\ returned' = returned
               ELSE IF node.join_type \in RemainJoinTypes
               THEN /\ node' = [node EXCEPT !.probe_eos = TRUE, !.pc = "probe_remain"]
                    /\ returned' = returned
               ELSE ReturnEos([node EXCEPT !.probe_eos = TRUE])
       ELSE LET cur == Head(child.probe)
                pre == node.pre_left_input_chunk
            IN /\ child' = [child EXCEPT !.probe = Tail(@), !.fetched = @ \cup RowIds(cur)]
               /\ returned' = returned
               /\ node' =
                    IF Len(cur) <= 0 THEN node
                    ELSE IF Len(cur) >= vector_chunk_size \div 2
                    THEN [node EXCEPT !.probing_chunk = cur, !.pc = "ht_probe"]
                    ELSE IF pre = <<>>
                    THEN [node EXCEPT !.pre_left_input_chunk = cur]
                    ELSE IF Len(cur) + Len(pre) > vector_chunk_size
                    THEN [node EXCEPT !.probing_chunk = pre, !.pre_left_input_chunk = cur,
                                      !.pc = "ht_probe"]
                    ELSE [node EXCEPT !.pre_left_input_chunk = pre \o cur]
    /\ UNCHANGED <<tablet_vars, num_calls, arrived, thread_vars, component_vars, table_items, probe_state>>

\* _probe, lines 520-547: the table is probed with the probing chunk; a chunk
\* without rows sends the loop round again
ProbeHt ==
    /\ \/ node.pc = "ht_probe"
       \/ node.pc = "probe" /\ ~NeedsInput(node)
    /\ LET ps == probe(table_items, probe_state, KeyRowsOf(node.probing_chunk))
           rows == [k \in 1..ps.count |->
                       <<node.probing_chunk[ps.probe_index[k] + 1].id, ps.build_index[k]>>]
           after == [node EXCEPT !.ht_has_remain = ps.has_remain,
                                 !.probing_chunk = IF ps.has_remain THEN @ ELSE <<>>]
           other == process_other_conjunct(node, table_items, ps, rows)
       IN /\ child' = [child EXCEPT !.drained = IF ps.has_remain THEN @
                                                 ELSE @ \cup RowIds(node.probing_chunk)]
          /\ IF rows = <<>>
             THEN /\ probe_state' = ps
                  /\ node' = [after EXCEPT !.pc = "probe"]
                  /\ returned' = returned
             ELSE IF node.other_conjunct = "none"
             THEN /\ probe_state' = ps
                  /\ ReturnChunk(after, rows, "probe")
             ELSE /\ probe_state' = other.ps
                  /\ IF other.rows = <<>>
                     THEN node' = [after EXCEPT !.pc = "probe"] /\ returned' = returned
                     ELSE ReturnChunk(after, other.rows, "probe")
    /\ UNCHANGED <<tablet_vars, num_calls, arrived, thread_vars, component_vars, table_items>>

\* _probe_remain, lines 554-585
ProbeRemain ==
    /\ node.pc = "probe_remain"
    /\ IF node.build_eos
       THEN ReturnEos(node) /\ UNCHANGED probe_state
       ELSE LET r == probe_remain(table_items, probe_state)
                after == [node EXCEPT !.right_table_has_remain = r.has_remain]
            IN /\ probe_state' = r.ps
               /\ IF r.rows = <<>>
                  THEN ReturnEos([after EXCEPT !.build_eos = TRUE])
                  ELSE ReturnChunk([after EXCEPT !.build_eos = ~r.has_remain], r.rows,
                                   "probe_remain")
    /\ UNCHANGED <<tablet_vars, num_calls, arrived, thread_vars, component_vars, table_items, child>>

\* ------------------------------------------------------------------------
\* SpecNode: a node is opened and read to its end
\* ------------------------------------------------------------------------
\* the chunks of the build side: none; two rows, no row, one row, all with
\* one key; three rows with different keys, one of them NULL
BuildStreams ==
    LET row(v) == <<<<v>>>>
    IN {<<>>,
        << <<row(0), row(0)>>, <<>>, <<row(0)>> >>,
        << <<row(0), <<NullCell>>, row(1)>> >>}

\* the chunks of the probe side: up to MaxProbeChunks chunks of no row, of
\* one row, or of three rows the first of which has a NULL key
ProbeShapes == {<<>>, <<<<0>>>>, <<NullCell, <<0>>, <<0>>>>}
ProbeStreams ==
    UNION {{[c \in 1..n |-> [r \in 1..Len(shapes[c]) |-> [id |-> <<c, r>>, key |-> shapes[c][r]]]] :
               shapes \in [1..n -> ProbeShapes]} : n \in 0..MaxProbeChunks}

InitNode ==
    /\ IdleTablet
    /\ NoComponents
    /\ \E config \in JoinConfigs : \E limit \in {-1, 2} :
           /\ node = NewNode(config[1], config[2], limit)
           /\ table_items = NewTableItems("single", [v \in KeyValues |-> 0], config[1],
                                          config[2] # "none")
    /\ probe_state = NewProbeState
    /\ \E build_side \in BuildStreams : \E probe_side \in ProbeStreams :
           child = [build |-> build_side, probe |-> probe_side, fetched |-> {},
                    drained |-> {}]
    /\ returned = <<>>

NextNode ==
    \/ OpenFetch
    \/ OpenBuild
    \/ GetNextCall
    \/ ProbeFetch
    \/ ProbeHt
    \/ ProbeRemain

SpecNode == InitNode /\ [][NextNode]_vars

\* ------------------------------------------------------------------------
\* SpecOpen: open() with build sides of any size. A chunk is known by its
\* number of rows and the table by its row count, a 32-bit number; child
\* remembers how many rows have been appended and the size of the chunk open()
\* has refused
\* ------------------------------------------------------------------------
\* largest number of chunks the build side of SpecOpen returns
MaxBuildChunks == 3

\* the sizes of the chunks: 0, 1, 4096, 2^31, UINT32_MAX - 1, UINT32_MAX, 2^32
ChunkSizes ==
    {<<0, 0, 0>>, <<0, 0, 1>>, <<0, 0, 4096>>, <<0, 32768, 0>>, <<0, 65535, 65534>>,
     <<0, 65535, 65535>>, <<1, 0, 0>>}

\* JoinHashTable::append_chunk on the row count: row_count += num_rows in the
\* 32 bits of row_count
AppendCounted(row_count, num_rows) ==
    <<0, LimbsAdd(row_count, num_rows)[2], LimbsAdd(row_count, num_rows)[3]>>

InitOpen ==
    /\ IdleTablet
    /\ NoComponents
    /\ node = NewNode("INNER_JOIN", "none", -1)
    /\ table_items = [row_count |-> Limbs(0), built |-> FALSE]
    /\ probe_state = NewProbeState
    /\ \E n \in 0..MaxBuildChunks : \E sizes \in [1..n -> ChunkSizes] :
           child = [build |-> sizes, appended |-> Limbs(0), rejected |-> Limbs(0)]
    /\ returned = <<>>

\* open(), one turn of the loop of lines 155-183
OpenFetchCounted ==
    /\ node.pc = "open"
    /\ IF child.build = <<>>
       THEN /\ node' = [node EXCEPT !.pc = "build"]
            /\ UNCHANGED <<child, table_items>>
       ELSE LET num_rows == Head(child.build)
            IN IF ~LimbsGeq(num_rows, Limbs(1))
               THEN /\ child' = [child EXCEPT !.build = Tail(@)]
                    /\ UNCHANGED <<node, table_items>>
               ELSE IF RowLimitReached(table_items.row_count, num_rows)
               THEN /\ node' = [node EXCEPT !.pc = "failed", !.status = "NotSupported"]
                    /\ child' = [child EXCEPT !.build = Tail(@), !.rejected = num_rows]
                    /\ UNCHANGED table_items
               ELSE /\ table_items' = [table_items EXCEPT
                                          !.row_count = AppendCounted(@, num_rows)]
                    /\ child' = [child EXCEPT !.build = Tail(@),
                                              !.appended = LimbsAdd(@, num_rows)]
                    /\ UNCHANGED node
    /\ UNCHANGED <<tablet_vars, num_calls, arrived, thread_vars, component_vars, probe_state, returned>>

\* open(), lines 185-245
OpenBuildCounted ==
    /\ node.pc = "build"
    /\ table_items' = [table_items EXCEPT !.built = TRUE]
    /\ node' = [node EXCEPT !.pc = "opened", !.eos = table_items.row_count = Limbs(0)]
    /\ UNCHANGED <<tablet_vars, num_calls, arrived, thread_vars, component_vars, probe_state, child, returned>>

NextOpen ==
    \/ OpenFetchCounted
    \/ OpenBuildCounted

SpecOpen == InitOpen /\ [][NextOpen]_vars

\* ------------------------------------------------------------------------
\* clear_meta: the tablet is dropped while its apply task may be running
\* ------------------------------------------------------------------------
\* do_apply, lines 644-658: the task is inside _apply_rowset_commit or
\* _apply_compaction_commit with version_info_apply, the pointer of line 643
HoldsEntry ==
    da.pc \in {"rowset_prepare", "mark", "compaction_prepare", "write", "stats", "unmark"}

\* the entry is one of _versions
InLog(info) == \E i \in 1..Len(versions) : versions[i] = info

\* clear_meta, lines 2083-2116, under _lock, _rowsets_lock and
\* _rowset_stats_lock; it does not stop the apply task. The callers of the
\* other operations are outside their calls (a call that has read _error
\* before would go on to _versions.back() of an empty log).
\* delete_failed: the rowsets whose metadata cannot be deleted;
\* write_ok: write_batch succeeds (line 2102)
ClearMeta ==
    /\ ~crashed
    /\ rc.pc = "idle" /\ gr.pc = "idle" /\ ex.pc = "idle" /\ ls.pc = "idle"
    /\ \A t \in CompactionThreads : cp[t].pc = "idle"
    /\ BeginCall
    /\ \E delete_failed \in SUBSET unused_rowsets, write_ok \in BOOLEAN :
         LET skipped_rowsets ==
                 {rowset \in unused_rowsets :
                     StillReferenced(rowset, gr, cp) \/ rowset \in delete_failed}
         IN /\ unused_rowsets' = skipped_rowsets
            /\ IF skipped_rowsets # {}
               THEN UNCHANGED <<error, versions, rowsets, rowset_stats, del_vectors,
                                pending_commits>>
               ELSE /\ error' = TRUE
                    /\ IF write_ok
                       THEN /\ versions' = <<>>
                            /\ rowsets' = EmptyMap
                            /\ rowset_stats' = EmptyMap
                            /\ del_vectors' = EmptyMap
                            /\ pending_commits' = pending_commits
                       ELSE UNCHANGED <<versions, rowsets, rowset_stats, del_vectors,
                                        pending_commits>>
    /\ UNCHANGED <<apply_version_idx, next_rowset_id, next_log_id, apply_running,
                   apply_stopped, compaction_running, apply_queue, crashed,
                   rc, da, cp, gr, ex, ls>>

\* a step of the apply task through version_info_apply after the entry was
\* destroyed reads freed memory: the process is aborted, or the step gives up
\* with whatever it read
ApplyDangling ==
    /\ ~crashed
    /\ HoldsEntry
    /\ ~InLog(da.info[1])
    /\ \/ /\ crashed' = TRUE
          /\ UNCHANGED <<da, compaction_running>>
       \/ /\ da' = [da EXCEPT !.pc = "check_error"]
          /\ compaction_running' \in {compaction_running, FALSE}
          /\ UNCHANGED crashed
    /\ UNCHANGED <<versions, apply_version_idx, pending_commits, rowsets, rowset_stats,
                   next_rowset_id, next_log_id, error, apply_running, apply_stopped,
                   unused_rowsets, del_vectors, apply_queue, num_calls, arrived,
                   join_vars, component_vars, rc, cp, gr, ex, ls>>

\* the entry the apply task holds is one of _versions
EntryInLog == HoldsEntry /\ InLog(da.info[1])

\* the steps of the apply task while its entry exists
ClearApplyRowsetPrepare == EntryInLog /\ ApplyRowsetPrepare

ClearApplyMark == EntryInLog /\ ApplyMark

ClearApplyCompactionPrepare == EntryInLog /\ ApplyCompactionPrepare

ClearApplyWrite == EntryInLog /\ ApplyWrite

ClearApplyCompactionStats == EntryInLog /\ ApplyCompactionStats

ClearApplyUnmark == EntryInLog /\ ApplyUnmark

NextClear ==
    \/ RowsetCommitCall
    \/ RowsetCommitIgnore
    \/ RowsetCommitPending
    \/ RowsetCommitInOrder
    \/ ApplyStart
    \/ ApplyWhile
    \/ ApplyPick
    \/ ClearApplyRowsetPrepare
    \/ ClearApplyMark
    \/ ClearApplyCompactionPrepare
    \/ ClearApplyWrite
    \/ ClearApplyCompactionStats
    \/ ClearApplyUnmark
    \/ ApplyCheckError
    \/ ApplyExit
    \/ ApplyDangling
    \/ RemoveExpiredVersionsCall
    \/ EraseExpiredVersions
    \/ RemoveExpiredRowsets
    \/ RemoveUnusedRowsets
    \/ LoadSnapshotCall
    \/ LoadSnapshotCheckVersion
    \/ StopApply
    \/ WaitApplyDone
    \/ LoadSnapshotLocked
    \/ LoadSnapshotDefer
    \/ ClearMeta

SpecClear == Init /\ [][NextClear]_vars

\* ------------------------------------------------------------------------
\* ContextWithDependency: a context shared by the operators of one exec node
\* ------------------------------------------------------------------------
\* largest number of operators that share one context
MaxOperators == 4

\* a new context (lines 59-60) for num_operators related operators, none of
\* them constructed yet. closes and running_at_close are history: the calls
\* of close() and the operators that had not called unref() at such a call
NewContext(num_operators) ==
    [num_running_operators |-> 0,
     is_finished |-> FALSE,
     stage |-> "prepare",
     operators |-> [o \in 1..num_operators |-> "none"],
     closes |-> 0,
     running_at_close |-> {}]

\* the operators of the tablet and of the join play no part
IdleEngine == IdleTablet /\ NoJoin

InitContext ==
    /\ IdleEngine
    /\ NoMerge
    /\ NoLoad
    /\ driver = <<>>
    /\ \E num_operators \in 1..MaxOperators : context = NewContext(num_operators)

OtherComponentsIdle == UNCHANGED <<tablet_vars, num_calls, arrived, thread_vars, join_vars>>

\* ref(), line 41, called by the constructor of an operator at the
\* preparation stage (lines 37, 39-40)
ContextRef ==
    /\ context.stage = "prepare"
    /\ \E o \in DOMAIN context.operators :
         /\ context.operators[o] = "none"
         /\ context' = [context EXCEPT !.num_running_operators = @ + 1,
                                       !.operators[o] = "running"]
    /\ OtherComponentsIdle
    /\ UNCHANGED <<driver, merge, load_mgr>>

\* the drivers are put on the dispatcher queue when every operator of the
\* fragment has been constructed (lines 39-40)
ContextDispatch ==
    /\ context.stage = "prepare"
    /\ \A o \in DOMAIN context.operators : context.operators[o] = "running"
    /\ context' = [context EXCEPT !.stage = "close"]
    /\ OtherComponentsIdle
    /\ UNCHANGED <<driver, merge, load_mgr>>

\* set_finished(), line 52, by the output operator
ContextSetFinished ==
    /\ context.stage = "close"
    /\ ~context.is_finished
    /\ \E o \in DOMAIN context.operators : context.operators[o] = "running"
    /\ context' = [context EXCEPT !.is_finished = TRUE]
    /\ OtherComponentsIdle
    /\ UNCHANGED <<driver, merge, load_mgr>>

\* the unref that closes whenever another operator is still counted
ClosesBeforeLast(previous) == previous = 2

\* unref(), line 45: fetch_sub(1) == 1
ClosesContext(previous) == previous = 1

\* unref(), line 45, called by close() of an operator: the atomic fetch_sub
ContextUnref ==
    /\ context.stage = "close"
    /\ \E o \in DOMAIN context.operators :
         /\ context.operators[o] = "running"
         /\ context' = [context EXCEPT
                !.num_running_operators = @ - 1,
                !.operators[o] = IF ClosesContext(context.num_running_operators)
                                 THEN "closing" ELSE "closed"]
    /\ OtherComponentsIdle
    /\ UNCHANGED <<driver, merge, load_mgr>>

\* unref(), line 46: close(state), by the thread whose fetch_sub returned 1
ContextClose ==
    /\ \E o \in DOMAIN context.operators :
         /\ context.operators[o] = "closing"
         /\ context' = [context EXCEPT
                !.operators[o] = "closed",
                !.closes = @ + 1,
                !.running_at_close =
                    @ \cup {p \in DOMAIN context.operators : context.operators[p] = "running"}]
    /\ OtherComponentsIdle
    /\ UNCHANGED <<driver, merge, load_mgr>>

NextContext ==
    \/ ContextRef
    \/ ContextDispatch
    \/ ContextSetFinished
    \/ ContextUnref
    \/ ContextClose

SpecContext == InitContext /\ [][NextContext]_vars

\* ------------------------------------------------------------------------
\* PipelineDriver: one driver moving chunks along its chain of operators
\* ------------------------------------------------------------------------
\* longest chain of operators of a driver: a source, pass-through operators
\* and a sink
MaxPipelineOperators == 3
\* most chunks the source operator holds
MaxChunks == 2
\* largest number of polls for which the source's i/o task stays pending
MaxPendingFinish == 1

\* OperatorStage, in the order the >= tests of lines 252, 262, 272 rely on
OperatorStages == <<"INIT", "PREPARED", "PROCESSING", "FINISHING", "FINISHED", "CLOSED">>

StageIndex(stage) == CHOOSE k \in DOMAIN OperatorStages : OperatorStages[k] = stage

\* op_state >= stage
StageAtLeast(op_state, stage) == StageIndex(op_state) >= StageIndex(stage)

\* the chunks a source may hold: chunk k of the source is k when it has
\* rows and -k when it has none
SourceChunks(chunk_num) ==
    {chunks \in [1..chunk_num -> (0 - chunk_num)..chunk_num] : \A k \in 1..chunk_num : chunks[k] \in {k, 0 - k}}

\* a driver over num_operators operators before prepare(). calls, pulled
\* and pushed are history: the lifecycle calls each operator received, the
\* chunks with rows pulled from it and the chunks pushed to it
NewDriver(num_operators, chunks, pending_finish_cnt) ==
    [state |-> "NOT_READY",
     dispatched |-> FALSE,
     finalized |-> FALSE,
     pc |-> "idle",
     i |-> 1,
     new_first_unfinished |-> 1,
     first_unfinished |-> 1,
     num_chunk_moved |-> 0,
     maybe_chunk |-> 0,
     operator_stages |-> [op \in 1..num_operators |-> "INIT"],
     chunks |-> chunks,
     index |-> 0,
     pending_finish_cnt |-> pending_finish_cnt,
     is_finished |-> [op \in 1..num_operators |-> FALSE],
     dst_chunk |-> [op \in 1..num_operators |-> 0],
     ht_empty |-> FALSE,
     is_canceled |-> FALSE,
     final_status_ok |-> TRUE,
     calls |-> [op \in 1..num_operators |-> <<>>],
     pulled |-> [op \in 1..num_operators |-> <<>>],
     pushed |-> [op \in 1..num_operators |-> <<>>]]

InitDriver ==
    /\ IdleEngine
    /\ NoMerge
    /\ NoLoad
    /\ context = <<>>
    /\ \E num_operators \in 2..MaxPipelineOperators, chunk_num \in 0..MaxChunks,
          pending_finish_cnt \in 0..MaxPendingFinish :
         \E chunks \in SourceChunks(chunk_num) :
            driver = NewDriver(num_operators, chunks, pending_finish_cnt)

NumOperators(d) == Len(d.operator_stages)

\* has_output(): TestSourceOperator, line 185 of the test; the sink,
\* intersect_probe_sink_operator.h line 29; a pass-through operator,
\* union_passthrough_operator.h line 42
has_output(d, op) ==
    IF op = 1 THEN d.index < Len(d.chunks)
    ELSE IF op = NumOperators(d) THEN FALSE
    ELSE d.dst_chunk[op] # 0

\* an operator that takes input while it still holds a chunk
TakesInputWhileFull(d, op) == TRUE

\* need_input(): the sink, intersect_probe_sink_operator.h lines 24-27 with
\* its dependency finished; a pass-through operator,
\* union_passthrough_operator.h line 40
need_input(d, op) ==
    IF op = NumOperators(d) THEN ~(d.is_finished[op] \/ d.ht_empty)
    ELSE ~d.is_finished[op] /\ d.dst_chunk[op] = 0

\* is_finished(): TestSourceOperator, line 186 of the test; the sink,
\* intersect_probe_sink_operator.h lines 31-38; a pass-through operator,
\* union_passthrough_operator.h line 44
is_finished(d, op) ==
    IF op = 1 THEN ~has_output(d, op)
    ELSE IF op = NumOperators(d) THEN d.is_finished[op] \/ d.ht_empty
    ELSE d.is_finished[op] /\ d.dst_chunk[op] = 0

\* the stage test that lets set_finishing through again
NeverFinishing(op_state) == FALSE

\* _mark_operator_finishing, line 252
AlreadyFinishing(op_state) == StageAtLeast(op_state, "FINISHING")

\* _mark_operator_finishing, lines 250-257
mark_operator_finishing(d, op) ==
    IF AlreadyFinishing(d.operator_stages[op]) THEN d
    ELSE [d EXCEPT !.calls[op] = Append(@, "set_finishing"),
                   !.is_finished[op] = TRUE,
                   !.operator_stages[op] = "FINISHING"]

\* _mark_operator_finished, lines 259-267
mark_operator_finished(d, op) ==
    LET d1 == mark_operator_finishing(d, op)
    IN IF StageAtLeast(d1.operator_stages[op], "FINISHED") THEN d1
       ELSE [d1 EXCEPT !.calls[op] = Append(@, "set_finished"),
                       !.operator_stages[op] = "FINISHED"]

\* _mark_operator_closed, lines 269-277
mark_operator_closed(d, op) ==
    LET d1 == mark_operator_finished(d, op)
    IN IF StageAtLeast(d1.operator_stages[op], "CLOSED") THEN d1
       ELSE [d1 EXCEPT !.calls[op] = Append(@, "close"),
                       !.operator_stages[op] = "CLOSED"]

RECURSIVE MarkFinishedRange(_, _, _)
\* the loop of lines 135-137 and of finish_operators, lines 177-181
MarkFinishedRange(d, from, to) ==
    IF from > to THEN d
    ELSE MarkFinishedRange(mark_operator_finished(d, from), from + 1, to)

finish_operators(d) == MarkFinishedRange(d, 1, NumOperators(d))

RECURSIVE MarkClosedRange(_, _, _)
MarkClosedRange(d, from, to) ==
    IF from > to THEN d
    ELSE MarkClosedRange(mark_operator_closed(d, from), from + 1, to)

\* _close_operators, lines 182-186
close_operators(d) == MarkClosedRange(d, 1, NumOperators(d))

\* TestSourceOperator::pending_finish, line 187 of the test: the record
\* after the call; the call returned TRUE iff its counter is not negative
pending_finish(d) == [d EXCEPT !.pending_finish_cnt = @ - 1]

\* _check_fragment_is_canceled, lines 236-245, with the fragment cancelled
FragmentIsCanceled(d) ==
    LET d1 == pending_finish(finish_operators(d))
    IN [d1 EXCEPT !.state = IF d1.pending_finish_cnt >= 0 THEN "PENDING_FINISH"
                            ELSE IF d1.final_status_ok THEN "FINISH" ELSE "CANCELED",
                  !.pc = "idle",
                  !.maybe_chunk = 0]

\* lines 64-72 and 117-125: the current operator has finished
CurrFinished(d) ==
    LET d1 == IF d.i = 1 THEN mark_operator_finishing(d, d.i) ELSE d
        d2 == mark_operator_finishing(d1, d.i + 1)
    IN [d2 EXCEPT !.new_first_unfinished = d.i + 1, !.i = d.i + 1]

OtherEnginesIdle == UNCHANGED <<tablet_vars, num_calls, arrived, thread_vars, join_vars>>

\* prepare, lines 14-43, every operator's prepare returning OK
DriverPrepare ==
    /\ driver.state = "NOT_READY"
    /\ driver' = [driver EXCEPT
            !.calls = [op \in DOMAIN @ |-> Append(@[op], "prepare")],
            !.operator_stages = [op \in DOMAIN @ |-> "PREPARED"],
            !.state = "READY"]
    /\ OtherEnginesIdle
    /\ UNCHANGED <<context, merge, load_mgr>>

\* dispatch_operators, lines 171-175: the dispatcher calls it once, when it
\* puts the prepared driver on its queue
DispatchOperators ==
    /\ driver.state = "READY"
    /\ ~driver.dispatched
    /\ driver' = [driver EXCEPT
            !.operator_stages = [op \in DOMAIN @ |-> "PROCESSING"],
            !.dispatched = TRUE]
    /\ OtherEnginesIdle
    /\ UNCHANGED <<context, merge, load_mgr>>

\* the fragment is cancelled by another thread, with an OK final status
\* (the fragment finished) or with an error
FragmentCancel ==
    /\ driver.dispatched
    /\ ~driver.finalized
    /\ ~driver.is_canceled
    /\ \E ok \in BOOLEAN :
         driver' = [driver EXCEPT !.is_canceled = TRUE, !.final_status_ok = ok]
    /\ OtherEnginesIdle
    /\ UNCHANGED <<context, merge, load_mgr>>

\* the hash table of the intersect context becomes empty, which finishes
\* the sink early (intersect_probe_sink_operator.h lines 26, 37)
HashTableEmpty ==
    /\ driver.dispatched
    /\ ~driver.finalized
    /\ ~driver.ht_empty
    /\ driver' = [driver EXCEPT !.ht_empty = TRUE]
    /\ OtherEnginesIdle
    /\ UNCHANGED <<context, merge, load_mgr>>

\* process, lines 45-56: a worker thread takes the driver from the queue
ProcessBegin ==
    /\ driver.dispatched
    /\ ~driver.finalized
    /\ driver.pc = "idle"
    /\ driver.state \in {"READY", "INPUT_EMPTY", "OUTPUT_FULL"}
    /\ \/ driver' = [driver EXCEPT !.state = "RUNNING",
                                   !.pc = "pair",
                                   !.i = driver.first_unfinished,
                                   !.new_first_unfinished = driver.first_unfinished,
                                   !.num_chunk_moved = 0]
       \/ \* line 51: the memory limit is exceeded
          driver' = [driver EXCEPT !.state = "RUNNING", !.pc = "error"]
    /\ OtherEnginesIdle
    /\ UNCHANGED <<context, merge, load_mgr>>

\* pull_chunk of operator op: the record after the call, the chunk in
\* maybe_chunk (line 210 of the test; a pass-through operator hands out the
\* chunk it holds)
pull_chunk(d, op) ==
    IF op = 1
    THEN [d EXCEPT !.maybe_chunk = d.chunks[d.index + 1], !.index = @ + 1]
    ELSE [d EXCEPT !.maybe_chunk = d.dst_chunk[op], !.dst_chunk[op] = 0]

\* push_chunk of operator op: a pass-through operator keeps the chunk, the
\* sink consumes it
push_chunk(d, op, chunk) ==
    IF op = NumOperators(d) THEN [d EXCEPT !.pushed[op] = Append(@, chunk)]
    ELSE [d EXCEPT !.pushed[op] = Append(@, chunk), !.dst_chunk[op] = chunk]

\* process, lines 57-94: one pair of operators up to the pull
ProcessPair ==
    /\ driver.pc = "pair"
    /\ driver.i < NumOperators(driver)
    /\ driver' =
         IF is_finished(driver, driver.i) THEN CurrFinished(driver)
         ELSE IF ~has_output(driver, driver.i) \/ ~need_input(driver, driver.i + 1)
              THEN [driver EXCEPT !.i = @ + 1]
         ELSE IF driver.is_canceled THEN FragmentIsCanceled(driver)
         ELSE LET d1 == pull_chunk(driver, driver.i)
              IN [d1 EXCEPT !.pc = "pulled",
                            !.pulled[driver.i] =
                                IF d1.maybe_chunk > 0 THEN Append(@, d1.maybe_chunk) ELSE @]
    /\ OtherEnginesIdle
    /\ UNCHANGED <<context, merge, load_mgr>>

\* process, lines 96-133: the second cancellation test, the push, the second
\* test of the current operator and the yield test, whose outcome depends on
\* the time spent on the core
ProcessPush ==
    /\ driver.pc = "pulled"
    /\ \/ /\ driver.is_canceled
          /\ driver' = FragmentIsCanceled(driver)
       \/ /\ ~driver.is_canceled
          /\ LET d1 == IF driver.maybe_chunk > 0
                       THEN push_chunk(driver, driver.i + 1, driver.maybe_chunk)
                       ELSE driver
                 d2 == [d1 EXCEPT !.num_chunk_moved = 1, !.maybe_chunk = 0, !.pc = "pair"]
             IN IF is_finished(d2, d2.i) THEN driver' = CurrFinished(d2)
                ELSE \/ driver' = [d2 EXCEPT !.i = @ + 1]
                     \/ driver' = [d2 EXCEPT !.pc = "yield"]
    /\ OtherEnginesIdle
    /\ UNCHANGED <<context, merge, load_mgr>>

\* process, lines 135-167: the end of a round
ProcessRoundEnd ==
    /\ \/ driver.pc = "pair" /\ driver.i >= NumOperators(driver)
       \/ driver.pc = "yield"
    /\ LET d1 == MarkFinishedRange(driver, driver.first_unfinished, driver.new_first_unfinished - 1)
           d2 == [d1 EXCEPT !.first_unfinished = d1.new_first_unfinished]
           sink == NumOperators(driver)
       IN IF is_finished(d2, sink)
          THEN LET d3 == pending_finish(finish_operators(d2))
               IN driver' = [d3 EXCEPT !.state = IF d3.pending_finish_cnt >= 0
                                                 THEN "PENDING_FINISH" ELSE "FINISH",
                                       !.pc = "idle"]
          ELSE IF d2.num_chunk_moved = 0 \/ d2.pc = "yield"
          THEN driver' = [d2 EXCEPT
                    !.state = IF ~is_finished(d2, sink) /\ ~need_input(d2, sink) THEN "OUTPUT_FULL"
                              ELSE IF ~is_finished(d2, 1) /\ ~has_output(d2, 1) THEN "INPUT_EMPTY"
                              ELSE "READY",
                    !.pc = "idle"]
          ELSE driver' = [d2 EXCEPT !.pc = "pair",
                                    !.i = d2.first_unfinished,
                                    !.new_first_unfinished = d2.first_unfinished,
                                    !.num_chunk_moved = 0]
    /\ OtherEnginesIdle
    /\ UNCHANGED <<context, merge, load_mgr>>

\* the dispatcher polls a driver in PENDING_FINISH until the source's i/o
\* task has finished
PollPendingFinish ==
    /\ driver.pc = "idle"
    /\ driver.state = "PENDING_FINISH"
    /\ LET d1 == pending_finish(driver)
       IN driver' = IF d1.pending_finish_cnt >= 0 THEN d1
                    ELSE [d1 EXCEPT !.state = IF d1.is_canceled /\ ~d1.final_status_ok
                                              THEN "CANCELED" ELSE "FINISH"]
    /\ OtherEnginesIdle
    /\ UNCHANGED <<context, merge, load_mgr>>

\* finalize, lines 188-194, called by the dispatcher when process returned a
\* final state or an error; the operators are destroyed after it
DriverFinalize ==
    /\ ~driver.finalized
    /\ \/ driver.pc = "idle" /\ driver.state \in {"FINISH", "CANCELED"}
       \/ driver.pc = "error"
    /\ driver' = [close_operators(driver) EXCEPT
            !.state = IF driver.pc = "error" THEN "INTERNAL_ERROR" ELSE driver.state,
            !.pc = "idle",
            !.finalized = TRUE]
    /\ OtherEnginesIdle
    /\ UNCHANGED <<context, merge, load_mgr>>

NextDriver ==
    \/ DriverPrepare
    \/ DispatchOperators
    \/ FragmentCancel
    \/ HashTableEmpty
    \/ ProcessBegin
    \/ ProcessPair
    \/ ProcessPush
    \/ ProcessRoundEnd
    \/ PollPendingFinish
    \/ DriverFinalize

SpecDriver == InitDriver /\ [][NextDriver]_vars

\* ------------------------------------------------------------------------
\* HeapMergeIterator: k-way merge of sorted children
\* ------------------------------------------------------------------------
\* merge_iterator.cpp line 29
max_merge_chunk_size == 65536
\* the values of the uint16_t _compared_row, line 48
CompareRowWidth == 65536

\* most children of a merge iterator
MaxMergeChildren == 2
\* largest key of a row
MaxKey == 2
\* most chunks a child yields
MaxChildChunks == 2
\* most rows of one key in a chunk of a small child
MaxRunRows == 2

\* A chunk is a sequence of runs [key, rows] with increasing keys: rows
\* consecutive rows whose key columns hold key.
RECURSIVE NumRowsOf(_)
NumRowsOf(chunk) == IF chunk = <<>> THEN 0 ELSE chunk[1].rows + NumRowsOf(Tail(chunk))

\* the key columns of row |row| (from 0) of the chunk
RECURSIVE KeyAt(_, _)
KeyAt(chunk, row) ==
    IF row < chunk[1].rows THEN chunk[1].key ELSE KeyAt(Tail(chunk), row - chunk[1].rows)

\* compare_chunk, lines 18-27
compare_chunk(lhs, m, rhs, n) ==
    IF KeyAt(lhs, m) < KeyAt(rhs, n) THEN -1
    ELSE IF KeyAt(lhs, m) > KeyAt(rhs, n) THEN 1 ELSE 0

\* the chunks of one or two runs a small child may yield
SmallChunks ==
    {<<[key |-> key, rows |-> rows]>> : key \in 1..MaxKey, rows \in 1..MaxRunRows}
    \cup {<<[key |-> k1, rows |-> r1], [key |-> k2, rows |-> r2]>> :
            k1 \in 1..MaxKey, k2 \in 1..MaxKey, r1 \in 1..MaxRunRows, r2 \in 1..MaxRunRows}

SortedChunk(chunk) == \A k \in 1..(Len(chunk) - 1) : chunk[k].key < chunk[k + 1].key

\* a child yields its rows in non-decreasing key order
SortedChild(chunks) ==
    /\ \A k \in DOMAIN chunks : SortedChunk(chunks[k])
    /\ \A k \in 1..(Len(chunks) - 1) : chunks[k][Len(chunks[k])].key <= chunks[k + 1][1].key

SmallChildren ==
    {chunks \in UNION {[1..n -> SmallChunks] : n \in 0..MaxChildChunks} : SortedChild(chunks)}

\* a child whose one chunk has max_merge_chunk_size rows, the last of them
\* with a larger key than the others
WideChild == <<<<[key |-> 1, rows |-> max_merge_chunk_size - 1], [key |-> 3, rows |-> 1]>>>>

\* the chunk size of the children, which is the iterator's (line 83): the
\* rows of their largest chunk
ChunkSizeOf(children) ==
    LET RowsOfChunks == UNION {{NumRowsOf(children[c][k]) : k \in DOMAIN children[c]} : c \in DOMAIN children} \cup {1}
    IN MaxOf(RowsOfChunks)

\* a merge iterator over the children before its first get_next. input,
\* taken and emitted are history: the children as given, the rows emitted
\* from the chunk each child has in the pool, and the rows emitted so far
\* as runs [order, key, rows]
NewMergeIterator(children) ==
    [children |-> children,
     chunk_pool |-> [c \in DOMAIN children |-> <<>>],
     heap |-> {},
     inited |-> FALSE,
     chunk_size |-> ChunkSizeOf(children),
     rows |-> 0,
     pc |-> "idle",
     status |-> "none",
     input |-> children,
     taken |-> [c \in DOMAIN children |-> 0],
     emitted |-> <<>>]

InitMerge ==
    /\ IdleEngine
    /\ NoPipeline
    /\ NoLoad
    /\ \/ \E n \in 2..MaxMergeChildren : \E children \in [1..n -> SmallChildren] :
             merge = NewMergeIterator(children)
       \/ merge = NewMergeIterator(<<<<<<[key |-> 2, rows |-> 1]>>>>, WideChild>>)

\* ComparableChunk::operator>, lines 57-61, on the chunks of the pool
ChunkGreater(m, lhs, rhs) ==
    LET r == compare_chunk(m.chunk_pool[lhs.order], lhs.compared_row,
                           m.chunk_pool[rhs.order], rhs.compared_row)
    IN r > 0 \/ (r = 0 /\ lhs.order > rhs.order)

\* ComparableChunk::less_than_all, lines 66-70
less_than_all(m, lhs, rhs) ==
    LET last_row == NumRowsOf(m.chunk_pool[lhs.order]) - 1
        r == compare_chunk(m.chunk_pool[lhs.order], last_row,
                           m.chunk_pool[rhs.order], rhs.compared_row)
    IN r < 0 \/ (r = 0 /\ lhs.order < rhs.order)

\* _heap.top() of the min priority queue, lines 171-172
HeapTop(m, heap) == CHOOSE e \in heap : \A f \in heap \ {e} : ChunkGreater(m, f, e)

\* MergingChunk::advance, line 39, on the uint16_t of line 48
advance(compared_row, row) == (compared_row + row) % CompareRowWidth

\* MergingChunk::remaining_rows, line 41
remaining_rows(m, e) == NumRowsOf(m.chunk_pool[e.order]) - e.compared_row

\* the history with |rows| more rows of |key| from child |order|
EmitRows(emitted, order, key, rows) ==
    IF emitted # <<>> /\ Last(emitted).order = order /\ Last(emitted).key = key
    THEN [emitted EXCEPT ![Len(emitted)].rows = @ + rows]
    ELSE Append(emitted, [order |-> order, key |-> key, rows |-> rows])

RECURSIVE EmitChunk(_, _, _)
EmitChunk(emitted, order, chunk) ==
    IF chunk = <<>> THEN emitted
    ELSE EmitChunk(EmitRows(emitted, order, chunk[1].key, chunk[1].rows), order, Tail(chunk))

\* HeapMergeIterator::fill, lines 230-252, for children that end with
\* EndOfFile: the iterator after the call, its status in .status
fill(m, child_index) ==
    IF m.children[child_index] = <<>>
    THEN [m EXCEPT !.chunk_pool[child_index] = <<>>, !.taken[child_index] = 0, !.status = "OK"]
    ELSE LET chunk == Head(m.children[child_index])
             m1 == [m EXCEPT !.children[child_index] = Tail(@),
                             !.chunk_pool[child_index] = chunk,
                             !.taken[child_index] = 0]
         IN IF NumRowsOf(chunk) > max_merge_chunk_size
            THEN [m1 EXCEPT !.status = "InternalError"]
            ELSE [m1 EXCEPT !.heap = @ \cup {[order |-> child_index, compared_row |-> 0]},
                            !.status = "OK"]

RECURSIVE FillFrom(_, _)
\* MergeIterator::init, lines 130-139
FillFrom(m, child_index) ==
    IF child_index > Len(m.children) THEN [m EXCEPT !.inited = TRUE]
    ELSE LET m1 == fill(m, child_index)
         IN IF m1.status # "OK" THEN m1 ELSE FillFrom(m1, child_index + 1)

MergeOthersIdle ==
    /\ UNCHANGED <<tablet_vars, num_calls, arrived, thread_vars, join_vars>>
    /\ UNCHANGED <<driver, context, load_mgr>>

\* do_get_next, lines 177-183: a call, until one returned EndOfFile or an
\* error
MergeGetNext ==
    /\ merge.pc = "idle"
    /\ merge.status \in {"none", "OK"}
    /\ LET m1 == IF merge.inited THEN [merge EXCEPT !.status = "OK"] ELSE FillFrom(merge, 1)
       IN merge' = IF m1.status # "OK" THEN m1
                   ELSE [m1 EXCEPT !.rows = 0, !.pc = "loop"]
    /\ MergeOthersIdle

\* do_get_next, lines 184-220: one round of the loop
MergeLoop ==
    /\ merge.pc = "loop"
    /\ merge.heap # {}
    /\ merge.rows < merge.chunk_size
    /\ LET min_chunk == HeapTop(merge, merge.heap)
           popped == [merge EXCEPT !.heap = @ \ {min_chunk}]
           offset == min_chunk.compared_row
           order == min_chunk.order
           chunk == merge.chunk_pool[order]
       IN IF offset = 0 /\ (popped.heap = {} \/ less_than_all(popped, min_chunk, HeapTop(popped, popped.heap)))
          THEN IF merge.rows = 0
               THEN merge' = [fill([popped EXCEPT !.emitted = EmitChunk(@, order, chunk)], order)
                                EXCEPT !.pc = "idle"]
               ELSE merge' = [merge EXCEPT !.pc = "idle", !.status = "OK"]
          ELSE LET advanced == [min_chunk EXCEPT !.compared_row = advance(@, 1)]
                   m1 == [popped EXCEPT !.emitted = EmitRows(@, order, KeyAt(chunk, offset), 1),
                                        !.taken[order] = @ + 1,
                                        !.rows = @ + 1]
               IN IF remaining_rows(m1, advanced) > 0
                  THEN merge' = [m1 EXCEPT !.heap = @ \cup {advanced}]
                  ELSE LET m2 == fill(m1, order)
                       IN merge' = IF m2.status # "OK" THEN [m2 EXCEPT !.pc = "idle"] ELSE m2
    /\ MergeOthersIdle

\* do_get_next, lines 221-227: the loop has ended
MergeReturn ==
    /\ merge.pc = "loop"
    /\ merge.heap = {} \/ merge.rows >= merge.chunk_size
    /\ merge' = [merge EXCEPT !.pc = "idle",
                              !.status = IF merge.rows > 0 THEN "OK" ELSE "EndOfFile"]
    /\ MergeOthersIdle

NextMerge ==
    \/ MergeGetNext
    \/ MergeLoop
    \/ MergeReturn

SpecMerge == InitMerge /\ [][NextMerge]_vars

\* ------------------------------------------------------------------------
\* LoadChannelMgr: the load channels of a backend
\* ------------------------------------------------------------------------
\* number of load ids
MaxLoadIds == 1
\* number of threads that serve add_chunk requests
MaxLoadThreads == 1
\* most senders of a load
MaxSenders == 2

LoadIds == 1..MaxLoadIds
LoadThreads == 1..MaxLoadThreads

\* a thread that serves no add_chunk request. A serving thread holds a
\* shared_ptr to its channel: the one in the map ("current"), or one that
\* was erased from the map after it finished or was cancelled
IdleAddChunk == [pc |-> "idle", load_id |-> 0, eos |-> FALSE, channel |-> "none", status |-> "none"]

\* the manager after its constructor (lines 57-63). finished_ids is
\* history: the ids a channel of which finished
NewLoadChannelMgr ==
    [load_channels |-> <<>>,
     lastest_success_channel |-> {},
     finished_ids |-> {},
     calls |-> [t \in LoadThreads |-> IdleAddChunk]]

InitLoad ==
    /\ IdleEngine
    /\ NoPipeline
    /\ NoMerge
    /\ load_mgr = NewLoadChannelMgr

LoadOthersIdle ==
    /\ UNCHANGED <<tablet_vars, num_calls, arrived, thread_vars, join_vars>>
    /\ UNCHANGED <<driver, context, merge>>

\* _load_channels.find(load_id) != _load_channels.end()
HasChannel(mgr, load_id) == load_id \in DOMAIN mgr.load_channels

\* _load_channels.erase of the load ids: the threads that hold the erased
\* channels keep them, finished or cancelled
EraseChannels(mgr, load_ids, kind) ==
    [mgr EXCEPT
        !.load_channels = [id \in (DOMAIN @) \ load_ids |-> @[id]],
        !.calls = [t \in LoadThreads |->
                     IF @[t].channel = "current" /\ @[t].load_id \in load_ids
                        /\ @[t].load_id \in DOMAIN mgr.load_channels
                     THEN [@[t] EXCEPT !.channel = kind] ELSE @[t]]]

\* LoadChannel::is_finished, load_channel.h lines 64-65: the channel has
\* been opened and all its tablets channels are closed
ChannelFinished(channel) == channel.opened /\ channel.senders = 0

\* open, lines 79-102, for a load of num_senders senders; the channel's
\* open() succeeds or fails
LoadOpen ==
    /\ \E load_id \in LoadIds, num_senders \in 1..MaxSenders, ok \in BOOLEAN :
         LET mgr == IF HasChannel(load_mgr, load_id) THEN load_mgr
                    ELSE [load_mgr EXCEPT
                            !.load_channels = [id \in (DOMAIN @) \cup {load_id} |->
                                                 IF id = load_id
                                                 THEN [opened |-> FALSE, senders |-> 0]
                                                 ELSE @[id]]]
         IN load_mgr' = IF ok /\ ~mgr.load_channels[load_id].opened
                        THEN [mgr EXCEPT !.load_channels[load_id] =
                                            [opened |-> TRUE, senders |-> num_senders]]
                        ELSE mgr
    /\ LoadOthersIdle

\* a request that is answered OK whether or not it is the final one
AnyRetriedRequest(recorded, eos) == recorded

\* add_chunk, lines 116-123: the load id is in the cache of finished loads
\* and the request has eos set
RetriedFinalRequest(recorded, eos) == recorded /\ eos

\* add_chunk, lines 109-128: the lookup under the lock
AddChunkLookup ==
    /\ \E t \in LoadThreads, load_id \in LoadIds, eos \in BOOLEAN :
         /\ load_mgr.calls[t].pc = "idle"
         /\ load_mgr' =
              IF ~HasChannel(load_mgr, load_id)
              THEN [load_mgr EXCEPT !.calls[t] =
                      [pc |-> "done", load_id |-> load_id, eos |-> eos, channel |-> "none",
                       status |-> IF RetriedFinalRequest(load_id \in load_mgr.lastest_success_channel, eos)
                                  THEN "OK" ELSE "InternalError"]]
              ELSE [load_mgr EXCEPT !.calls[t] =
                      [pc |-> "add", load_id |-> load_id, eos |-> eos,
                       channel |-> "current", status |-> "none"]]
    /\ LoadOthersIdle

\* add_chunk, lines 131-139: the channel takes the chunk or fails, as a
\* cancelled or unopened one does; a request with eos closes one sender
AddChunkAdd ==
    /\ \E t \in LoadThreads, ok \in BOOLEAN :
         LET call == load_mgr.calls[t]
         IN /\ call.pc = "add"
            /\ \/ call.channel = "cancelled"
               \/ call.channel = "current" /\ ~load_mgr.load_channels[call.load_id].opened
               => ~ok
            /\ IF ~ok
               THEN load_mgr' = [load_mgr EXCEPT !.calls[t].pc = "done",
                                                 !.calls[t].channel = "none",
                                                 !.calls[t].status = "InternalError"]
               ELSE IF call.channel = "finished"
               THEN load_mgr' = [load_mgr EXCEPT !.calls[t].pc = "finish"]
               ELSE LET channel == load_mgr.load_channels[call.load_id]
                        senders == IF call.eos /\ channel.senders > 0
                                   THEN channel.senders - 1 ELSE channel.senders
                        mgr == [load_mgr EXCEPT !.load_channels[call.load_id].senders = senders]
                    IN load_mgr' = IF ChannelFinished(mgr.load_channels[call.load_id])
                                   THEN [mgr EXCEPT !.calls[t].pc = "finish"]
                                   ELSE [mgr EXCEPT !.calls[t].pc = "done",
                                                    !.calls[t].channel = "none",
                                                    !.calls[t].status = "OK"]
    /\ LoadOthersIdle

\* add_chunk, lines 139-150: whatever channel the map holds for the load id
\* is removed and the id put in the cache of finished loads
AddChunkFinish ==
    /\ \E t \in LoadThreads :
         LET call == load_mgr.calls[t]
             erased == EraseChannels(load_mgr, {call.load_id},
                          IF call.channel = "current" THEN "finished" ELSE "cancelled")
         IN /\ call.pc = "finish"
            /\ load_mgr' = [erased EXCEPT
                    !.lastest_success_channel = @ \cup {call.load_id},
                    !.finished_ids = @ \cup {call.load_id},
                    !.calls[t].pc = "done",
                    !.calls[t].channel = "none",
                    !.calls[t].status = "OK"]
    /\ LoadOthersIdle

\* the response is sent
AddChunkReturn ==
    /\ \E t \in LoadThreads :
         /\ load_mgr.calls[t].pc = "done"
         /\ load_mgr' = [load_mgr EXCEPT !.calls[t] = IdleAddChunk]
    /\ LoadOthersIdle

\* cancel, lines 242-259
LoadCancel ==
    /\ \E load_id \in LoadIds :
         /\ HasChannel(load_mgr, load_id)
         /\ load_mgr' = EraseChannels(load_mgr, {load_id}, "cancelled")
    /\ LoadOthersIdle

\* _start_load_channels_clean, lines 280-311: the channels not updated for
\* their timeout are erased and cancelled
LoadChannelsClean ==
    /\ \E need_delete_channel_ids \in SUBSET (DOMAIN load_mgr.load_channels) :
         /\ need_delete_channel_ids # {}
         /\ load_mgr' = EraseChannels(load_mgr, need_delete_channel_ids, "cancelled")
    /\ LoadOthersIdle

\* the cache of line 62 drops a load id to make room for those of other
\* loads
LruEvict ==
    /\ \E load_id \in load_mgr.lastest_success_channel :
         load_mgr' = [load_mgr EXCEPT !.lastest_success_channel = @ \ {load_id}]
    /\ LoadOthersIdle

NextLoad ==
    \/ LoadOpen
    \/ AddChunkLookup
    \/ AddChunkAdd
    \/ AddChunkFinish
    \/ AddChunkReturn
    \/ LoadCancel
    \/ LoadChannelsClean
    \/ LruEvict

SpecLoad == InitLoad /\ [][NextLoad]_vars

\* ------------------------------------------------------------------------
\* Properties
\* ------------------------------------------------------------------------
\* the new log extends the old one by at least one entry
LogAppended == /\ Len(versions') > Len(versions)
               /\ SubSeq(versions', 1, Len(versions)) = versions

\* C1: rowset-commit entries of the version log have strictly increasing major
\* versions with no gaps: every rowset-commit entry that has a predecessor in
\* the log carries the predecessor's major version plus one (minor 0), and a
\* step that appends entries to the log gives each appended rowset-commit
\* entry the major version of the entry before it plus one.
C1_NoGaps ==
    /\ [](\A i \in 2..Len(versions) :
            Len(versions[i].deltas) > 0 =>
                versions[i].version = EditVersion(versions[i - 1].version.major + 1, 0))
    /\ [][LogAppended =>
            \A i \in (Len(versions) + 1)..Len(versions') :
                Len(versions'[i].deltas) > 0 =>
                    /\ versions'[i].version.major = versions'[i - 1].version.major + 1
                    /\ i = Len(versions) + 1 =>
                           versions'[i].version.major = Last(versions).version.major + 1]_vars

\* two rowset commits were appended one after the other
C1_Witness ==
    \E i \in 2..Len(versions) :
        /\ Len(versions[i].deltas) > 0
        /\ Len(versions[i - 1].deltas) > 0
        /\ rc.path \in {"committed", "committed_promoted"}

\* C2: get_applied_rowsets(v) never exposes an unapplied version: whenever the
\* scan under _lock returns OK, the list it returns is the rowset list of a log
\* entry whose major version is v and whose index is at most _apply_version_idx
\* at that moment.
C2_ReadsApplied ==
    [][(gr.pc = "scan" /\ gr'.pc = "idle" /\ gr'.status = "OK") =>
          \E i \in 1..(apply_version_idx' + 1) :
              /\ versions'[i].version.major = gr.version
              /\ Len(gr'.result) = Len(versions'[i].rowsets)
              /\ \A k \in 1..Len(gr'.result) :
                     /\ versions'[i].rowsets[k] \in DOMAIN rowsets'
                     /\ gr'.result[k] = rowsets'[versions'[i].rowsets[k]]]_vars

\* a read returned a non-empty rowset list while the log held an entry that
\* was not applied yet
C2_Witness ==
    /\ gr.pc = "idle"
    /\ gr.status = "OK"
    /\ Len(gr.result) > 0
    /\ Len(versions) > apply_version_idx + 1

\* the apply tasks in flight: submitted to the pool, or executing do_apply
ApplyTasksInFlight == apply_queue + (IF da.pc = "none" THEN 0 ELSE 1)

\* C3: at most one apply task is in flight (submitted or executing do_apply) at
\* any time; a task is submitted only when _apply_running is false, and
\* _apply_running is cleared only by the task itself as it exits.
C3_OneApplyTask ==
    /\ [](ApplyTasksInFlight <= 1)
    /\ [][/\ apply_queue' > apply_queue => ~apply_running /\ apply_running'
          /\ (apply_running /\ ~apply_running') => (da.pc = "exit" /\ da'.pc = "none")]_vars

\* a task is executing while two entries of the log wait to be applied: the
\* second commit found _apply_running set and submitted nothing
C3_Witness ==
    /\ da.pc \notin {"none", "exit"}
    /\ apply_queue = 0
    /\ apply_running
    /\ Len(versions) > apply_version_idx + 2

\* the log holds an entry with this version that is not applied yet
Unapplied(version) ==
    \E i \in (apply_version_idx + 2)..Len(versions) : versions[i].version = version

\* compaction thread t won the compare-and-swap and its compaction has
\* neither failed nor been committed and applied
CompactionInFlight(t) ==
    \/ cp[t].pc \in {"select_version", "select_inputs", "do", "commit"}
    \/ cp[t].pc = "wait" /\ Unapplied(cp[t].version)

\* C4: at most one compaction is in flight at any time: between the moment a
\* compaction() call wins the compare-and-swap on _compaction_running and the
\* moment it has failed or its output is committed and applied, no other
\* compaction() call gets past the flag.
C4_OneCompaction ==
    Cardinality({t \in CompactionThreads : CompactionInFlight(t)}) <= 1

\* C6: rowset_commit is all-or-nothing on a metadata-store failure: when the
\* write fails, the failure is returned and the version log, pending_commits,
\* the rowsets map, rowset_stats, the next log id and the next rowset id are
\* what they were before the call.
C6_AllOrNothing ==
    [][(rc.pc = "lock" /\ rc'.pc = "idle" /\ rc'.status = "MetaError") =>
          UNCHANGED <<versions, pending_commits, rowsets, rowset_stats, next_log_id,
                      next_rowset_id>>]_vars

\* C7: the error flag is sticky and blocks mutation: once _error is set it is
\* never cleared, and no step taken while it is set appends to the version
\* log, replaces the log by a snapshot or changes pending_commits.
C7_ErrorBlocksMutation ==
    [][error => /\ error'
                /\ pending_commits' = pending_commits
                /\ ~LogAppended
                /\ ls.pc = "locked" => versions' = versions]_vars

\* the entry that _apply_version_idx names
AppliedEntry == versions[apply_version_idx + 1]

\* C9: log entries are applied in log order, one at a time: the applied
\* pointer moves to another entry of the log only in the step of the apply
\* task that wrote the apply record of the entry right after the applied one
\* (the log record and the delete vectors are persisted in that step), the
\* pointer then names that entry, and a reader blocked in the wait is woken.
\* The only other change of the applied entry is load_snapshot replacing the log.
C9_AppliedInOrder ==
    [][AppliedEntry' # AppliedEntry =>
          \/ ls.pc = "locked"
          \/ /\ da.pc = "write"
             /\ Len(versions) > apply_version_idx + 1
             /\ versions' = versions
             /\ apply_version_idx' = apply_version_idx + 1
             /\ AppliedEntry' = da.info[1]
             /\ next_log_id' = next_log_id + 1
             /\ \A s \in DOMAIN da.new_del_vecs :
                    s \in DOMAIN del_vectors' /\ del_vectors'[s] = da.new_del_vecs[s]
             /\ gr.pc = "waiting" => gr'.notified]_vars

\* two entries were applied one after the other and a reader was woken by
\* the second apply
C9_Witness ==
    /\ apply_version_idx >= 2
    /\ gr.pc = "waiting"
    /\ gr.notified
    /\ da.pc = "check_error"
    /\ ~error

\* C10: when an in-order rowset_commit returns OK and no metadata write of a
\* promotion failed, pending_commits holds no entry whose version is at most
\* the highest committed major version plus one.
C10_PendingsDrained ==
    [][(rc.pc = "lock" /\ rc'.pc = "idle" /\ rc'.path \in {"committed", "committed_promoted"}) =>
          \A v \in DOMAIN pending_commits' : v > Last(versions').version.major + 1]_vars

\* an in-order commit promoted a buffered commit and left the buffer empty
C10_Witness ==
    /\ rc.path = "committed_promoted"
    /\ Len(versions) >= 3
    /\ Len(versions[Len(versions)].deltas) > 0
    /\ Len(versions[Len(versions) - 1].deltas) > 0
    /\ DOMAIN pending_commits = {}

\* the commit the committer holds _lock for is a duplicate: its version is
\* already committed, or already buffered
DuplicateCommit ==
    /\ rc.pc = "lock"
    /\ \/ rc.version <= Last(versions).version.major
       \/ rc.version \in DOMAIN pending_commits

\* a duplicate commit leaves the version log, pending_commits, the rowsets
\* map, rowset_stats, num_rowsets() and data_size() as they were
DuplicateChangesNothing ==
    /\ UNCHANGED <<versions, pending_commits, rowsets, rowset_stats>>
    /\ NumRowsets' = NumRowsets
    /\ DataSize' = DataSize

CardinalityMismatch(new_deletes) ==
    \E s \in DOMAIN new_deletes \cap DOMAIN del_vectors :
        Cardinality(del_vectors[s] \cup new_deletes[s])
            # Cardinality(del_vectors[s]) + Cardinality(new_deletes[s])

\* the step of _apply_rowset_commit that derived the delete vectors found a
\* mismatch
MismatchFound == da.pc = "rowset_prepare" /\ CardinalityMismatch(da'.new_deletes)

AllArrived ==
    /\ rc.pc = "idle"
    /\ arrived # {}
    /\ arrived = 2..MaxOf(arrived)

\* the head is version k and its membership list names, in version order, the
\* rowsets of the versions 2..k
CanonicalHead(k) ==
    LET head == Last(versions)
    IN /\ head.version = EditVersion(k, 0)
       /\ Len(head.rowsets) = k - 1
       /\ \A i \in 1..(k - 1) :
            /\ head.rowsets[i] = i - 1
            /\ head.rowsets[i] \in DOMAIN rowsets
            /\ rowsets[head.rowsets[i]] = InputRowset(i + 1)

OutOfOrderReturn ==
    /\ rc.pc = "lock"
    /\ rc'.pc = "idle"
    /\ ~IsDuplicate(rc.version, versions)
    /\ IsOutOfOrder(rc.version, versions)

\* C12 as stated: pending_commits never holds more than 100 commits, and an
\* out-of-order rowset_commit that finds 100 commits buffered fails with
\* InternalError and buffers nothing.
C12_BoundedBy100 ==
    /\ [](Cardinality(DOMAIN pending_commits) <= 100)
    /\ [][(OutOfOrderReturn /\ Cardinality(DOMAIN pending_commits) >= 100) =>
            (rc'.status = "InternalError" /\ pending_commits' = pending_commits)]_vars

\* C12 amended: pending_commits never holds more than 101 commits; an
\* out-of-order rowset_commit that finds more than 100 commits buffered fails
\* with InternalError and buffers nothing, and one that finds 100 or fewer is
\* not refused for the size of the buffer.
C12_BoundedBy101 ==
    /\ [](Cardinality(DOMAIN pending_commits) <= kMaxPendingCommits + 1)
    /\ [][(OutOfOrderReturn /\ Cardinality(DOMAIN pending_commits) > kMaxPendingCommits) =>
            (rc'.status = "InternalError" /\ pending_commits' = pending_commits)]_vars
    /\ [][(OutOfOrderReturn /\ Cardinality(DOMAIN pending_commits) <= kMaxPendingCommits) =>
            (rc'.status # "InternalError" /\ rc.version \in DOMAIN pending_commits')]_vars

\* the buffer is full at 101 commits and a new out-of-order commit was refused
C12_Witness ==
    /\ Cardinality(DOMAIN pending_commits) = kMaxPendingCommits + 1
    /\ rc.pc = "idle"
    /\ rc.path = "too_many_pending"
    /\ rc.status = "InternalError"

\* version has an applied entry that the log still retains
AppliedRetained(version) ==
    \E i \in 1..(apply_version_idx + 1) : versions[i].version.major = version

\* the rowsets of the latest applied entry of version
AppliedRowsetList(version) ==
    LET i == MaxOf({j \in 1..(apply_version_idx + 1) : versions[j].version.major = version})
    IN [k \in 1..Len(versions[i].rowsets) |-> rowsets[versions[i].rowsets[k]]]

\* a call of get_applied_rowsets starts
ReaderCalls == gr.pc = "idle" /\ gr' # gr

\* C13 as stated: a get_applied_rowsets call made after the tablet was marked
\* error, for a version that is applied and still retained, is not refused.
C13_ReadsSurviveError ==
    [][(ReaderCalls /\ error /\ AppliedRetained(gr'.version)) =>
         ~(gr'.pc = "idle" /\ gr'.status = "InternalError")]_vars

\* C13 amended: a get_applied_rowsets call that starts while the error flag is
\* set is refused with InternalError whatever the version; a call that passed
\* the entry test before is unaffected by the flag: for a version that is
\* applied and retained it does not wait and returns OK with the rowset list
\* of that version's latest applied entry.
C13_OnlyStartedReadsSurvive ==
    /\ [][(ReaderCalls /\ error) =>
            (gr'.pc = "idle" /\ gr'.status = "InternalError" /\ gr'.result = <<>>)]_vars
    /\ [][(gr.pc = "wait_first" /\ gr' # gr /\ AppliedRetained(gr.version)) =>
            gr'.pc = "scan"]_vars
    /\ [][(gr.pc = "scan" /\ gr' # gr /\ AppliedRetained(gr.version)) =>
            (gr'.pc = "idle" /\ gr'.status = "OK"
             /\ gr'.result = AppliedRowsetList(gr.version))]_vars

\* a call for an applied, retained version was refused because of the error flag
C13_Witness ==
    /\ error
    /\ gr.pc = "idle"
    /\ gr.status = "InternalError"
    /\ gr.path = "error"
    /\ AppliedRetained(gr.version)

\* the error flag was set while a reader of an applied version was past the
\* entry test
C13_WitnessStarted ==
    /\ error
    /\ gr.pc = "scan"
    /\ AppliedRetained(gr.version)

\* the version a step of the reader is about
RequestedVersion == IF gr.pc = "idle" THEN gr'.version ELSE gr.version

\* the reader returns from get_applied_rowsets
ReaderReturns == gr' # gr /\ gr'.pc = "idle"

\* the reader, blocked in _wait_for_version, runs one round of the wait loop
ReaderWakes ==
    /\ gr.pc = "waiting"
    /\ gr' # gr
    /\ ~gr'.notified
    /\ gr'.elapsed => gr.elapsed

\* version is older than the oldest retained log entry
OlderThanLog(version) == version < versions[1].version.major

\* version is greater than every committed and every pending version
BeyondAll(version) ==
    /\ \A i \in 1..Len(versions) : versions[i].version.major < version
    /\ \A v \in DOMAIN pending_commits : v < version

\* C14 as stated: get_applied_rowsets(v) returns NotFound when v is older than
\* the oldest retained log entry, and InternalError as soon as the waiting
\* reader finds v greater than every committed and every pending version.
C14_OutOfRangeStatus ==
    /\ [][(ReaderReturns /\ OlderThanLog(RequestedVersion)) =>
            gr'.status = "NotFound"]_vars
    /\ [][(ReaderWakes /\ BeyondAll(gr.version)) =>
            (gr'.pc = "idle" /\ gr'.status = "InternalError")]_vars

\* C14 amended: a get_applied_rowsets(v) call that passed the entry test
\* returns NotFound when v is older than the oldest retained log entry; a
\* waiting reader that finds v greater than every committed and every pending
\* version returns InternalError if the error flag is not set, and if the flag
\* is set it leaves the wait and the call returns NotFound; a call that starts
\* while the error flag is set returns InternalError whatever v is.
C14_OutOfRangeStatusUnlessError ==
    /\ [][(ReaderReturns /\ gr.pc # "idle" /\ OlderThanLog(gr.version)) =>
            gr'.status = "NotFound"]_vars
    /\ [][(ReaderWakes /\ BeyondAll(gr.version) /\ ~error) =>
            (gr'.pc = "idle" /\ gr'.status = "InternalError")]_vars
    /\ [][(ReaderWakes /\ BeyondAll(gr.version) /\ error) => gr'.pc = "scan"]_vars
    /\ [][(gr.pc = "scan" /\ gr' # gr /\ ~AppliedRetained(gr.version)) =>
            (gr'.pc = "idle" /\ gr'.status = "NotFound")]_vars
    /\ [][(ReaderCalls /\ error) => gr'.status = "InternalError"]_vars

\* a reader was refused a version that has left the log
C14_Witness ==
    /\ gr.pc = "idle"
    /\ gr.status = "NotFound"
    /\ gr.path = "no_entry"
    /\ OlderThanLog(gr.version)

\* a waiting reader was refused a version beyond everything committed or pending
C14_WitnessBeyond ==
    /\ gr.pc = "idle"
    /\ gr.status = "InternalError"
    /\ gr.path = "beyond"
    /\ BeyondAll(gr.version)

\* version has no entry in the log
NotCommitted(version) == \A i \in 1..Len(versions) : versions[i].version.major # version

\* the reader wakes after the wait bound has elapsed, for a version that is
\* not committed but is not beyond every pending version either
WakesAfterBound ==
    /\ ReaderWakes
    /\ gr.elapsed
    /\ NotCommitted(gr.version)
    /\ VersionLess(AppliedVersion, EditVersion(gr.version, 0))
    /\ ~BeyondAll(gr.version)

\* C15 as stated: a reader blocked in get_applied_rowsets does not block for
\* ever, and one that wakes after the wait bound has elapsed, for a version
\* that has not been committed, returns TimedOut.
C15_WaitTimesOut ==
    /\ (gr.pc = "waiting") ~> (gr.pc = "idle")
    /\ [][WakesAfterBound => (gr'.pc = "idle" /\ gr'.status = "TimedOut")]_vars

\* C15 amended: a reader blocked in get_applied_rowsets does not block for
\* ever; one that wakes after the wait bound has elapsed, for a version that
\* has not been committed, returns TimedOut if the error flag is not set, and
\* if the flag is set it leaves the wait and the call returns NotFound.
C15_WaitTimesOutUnlessError ==
    /\ (gr.pc = "waiting") ~> (gr.pc = "idle")
    /\ [][(WakesAfterBound /\ ~error) =>
            (gr'.pc = "idle" /\ gr'.status = "TimedOut")]_vars
    /\ [][(WakesAfterBound /\ error) => gr'.pc = "scan"]_vars
    /\ [][(gr.pc = "scan" /\ gr' # gr /\ NotCommitted(gr.version)) =>
            (gr'.pc = "idle" /\ gr'.status = "NotFound")]_vars

\* a reader of a buffered version gave up with TimedOut
C15_Witness ==
    /\ gr.pc = "idle"
    /\ gr.status = "TimedOut"
    /\ gr.version \in DOMAIN pending_commits
    /\ NotCommitted(gr.version)
    /\ ~error

\* the entries of the log are in strictly increasing version order
StrictlyOrdered(vs) ==
    \A i \in 1..Len(vs) - 1 : VersionLess(vs[i].version, vs[i + 1].version)

\* the log grew at the tail only: every old entry is where it was, unchanged
AppendedAtTail ==
    /\ Len(versions') > Len(versions)
    /\ SubSeq(versions', 1, Len(versions)) = versions

\* the log lost applied entries from the front only, by the expiry step
ExpiredFromFront ==
    /\ ex.pc = "erase"
    /\ Len(versions') < Len(versions)
    /\ Len(versions) - Len(versions') <= apply_version_idx
    /\ versions' = SubSeq(versions, Len(versions) - Len(versions') + 1, Len(versions))

\* load_snapshot dropped every entry and started the log again at the
\* snapshot version, which is greater than every version the log held
ReplacedBySnapshot ==
    /\ ls.pc = "locked"
    /\ versions'[1].version = EditVersion(ls.snapshot_version, 0)
    /\ VersionLess(Last(versions).version, versions'[1].version)
    /\ \A i \in 1..Len(versions) : \A j \in 1..Len(versions') : versions[i] # versions'[j]

C17_AppliedRowsetsInMap ==
    \A i \in 1..apply_version_idx + 1 :
        \A k \in 1..Len(versions[i].rowsets) : versions[i].rowsets[k] \in DOMAIN rowsets

\* remove_expired_versions has moved the rowsets that only expired entries
\* listed to the unused queue, and the applied entry that is retained lists
\* rowsets
C17_Witness ==
    /\ ex.pc = "remove_unused"
    /\ unused_rowsets # {}
    /\ apply_version_idx = 0
    /\ Len(versions[1].rowsets) >= 2
    /\ versions[1].version.major > 2

\* the rowsets in the vector the last get_applied_rowsets call returned
PinnedByReader == {gr.result[k] : k \in 1..Len(gr.result)}

\* C18: a rowset leaves the unused-rowsets queue, to be deleted, only when no
\* reader holds a reference to it; _remove_unused_rowsets puts a rowset that
\* a reader still pins back on the queue.
C18_DeletedOnlyUnreferenced ==
    /\ [][\A rowset \in unused_rowsets \ unused_rowsets' : rowset \notin PinnedByReader]_vars
    /\ [][(ex.pc = "remove_unused" /\ ex'.pc = "idle") =>
            unused_rowsets \cap PinnedByReader \subseteq unused_rowsets']_vars

\* remove_expired_versions has returned and left a rowset that the reader
\* pins on the queue
C18_Witness ==
    /\ ex.pc = "idle"
    /\ ls.status = "none"
    /\ gr.status = "OK"
    /\ unused_rowsets \cap PinnedByReader # {}

\* _stop_and_wait_apply_done has returned in load_snapshot and the stop flag
\* has not been cleared
StopReturned == ls.pc \in {"locked", "defer"} /\ apply_stopped

\* an apply task is started: _apply_running goes from false to true
TaskStarted == ~apply_running /\ apply_running'

\* the apply task advances _apply_version_idx
AppliesEntry == da' # da /\ apply_version_idx' # apply_version_idx

\* C19: _stop_and_wait_apply_done returns only when _apply_running is false,
\* and after it has returned, while the stop flag stays set, no apply task is
\* started and no log entry is applied.
C19_StoppedMeansNoApply ==
    /\ [][(ls.pc = "wait_apply" /\ ls'.pc # "wait_apply") => ~apply_running]_vars
    /\ [][(StopReturned /\ apply_stopped') => ~(TaskStarted \/ AppliesEntry)]_vars

\* after _stop_and_wait_apply_done has returned, while the stop flag stays
\* set, no log entry is applied, and an apply task is started only by a
\* commit that had read the stop flag before it was set
C19_StoppedMeansNoEntryApplied ==
    /\ [][(ls.pc = "wait_apply" /\ ls'.pc # "wait_apply") => ~apply_running]_vars
    /\ [][(StopReturned /\ apply_stopped') => ~AppliesEntry]_vars
    /\ [][(StopReturned /\ apply_stopped' /\ TaskStarted) => InCheckForApply]_vars

\* the rowsets whose statistics show num_rows == num_dels
FullyDead == {r \in DOMAIN rowset_stats : rowset_stats[r].num_rows = rowset_stats[r].num_dels}

\* a compaction thread picks its inputs
SelectsInputs(t) == cp[t].pc = "select_inputs" /\ cp'[t].pc = "do"

\* C20: when a compaction picks its inputs, every rowset of the applied
\* version it started from whose statistics show num_rows == num_dels is
\* among them.
C20_FullyDeadIncluded ==
    [][\A t \in CompactionThreads :
          SelectsInputs(t) =>
              SeqToSet(cp[t].inputs) \cap FullyDead \subseteq SeqToSet(cp'[t].inputs)]_vars

\* a compaction has picked a fully dead rowset and has left out, because of a
\* threshold, a rowset with a positive score
C20_Witness ==
    \E t \in CompactionThreads :
        /\ cp[t].pc = "do"
        /\ SeqToSet(cp[t].inputs) \cap FullyDead # {}
        /\ \E r \in DOMAIN rowset_stats :
               /\ r \notin SeqToSet(cp[t].inputs)
               /\ rowset_stats[r].num_rows > rowset_stats[r].num_dels
               /\ CalcCompactionScore(rowset_stats[r]) > 0

\* the candidates of the version a compaction thread started from
CandidatesOf(t) ==
    LET c == Candidates(cp[t].inputs, rowset_stats) IN {c[i] : i \in 1..Len(c)}

\* C21: when a compaction picks its inputs, the rowsets picked among the
\* candidates (the rowsets with a positive score that are not fully dead) are
\* a prefix of the candidates in descending score_per_row order: no candidate
\* is picked while a candidate with a strictly higher score_per_row is left out.
C21_DescendingScorePrefix ==
    [][\A t \in CompactionThreads :
          SelectsInputs(t) =>
              \A c, d \in CandidatesOf(t) :
                  (/\ c.rowsetid \in SeqToSet(cp'[t].inputs)
                   /\ d.rowsetid \notin SeqToSet(cp'[t].inputs))
                  => ~FloatGreater(d.score_per_row, c.score_per_row)]_vars

\* a compaction has picked a candidate and has left out another one, of a
\* strictly lower score_per_row, that comes before it in the version
C21_Witness ==
    \E t \in CompactionThreads :
        /\ cp[t].pc = "do"
        /\ \E r, q \in DOMAIN rowset_stats :
               /\ q < r
               /\ r \in SeqToSet(cp[t].inputs)
               /\ q \notin SeqToSet(cp[t].inputs)
               /\ IsValid(r, rowset_stats) /\ ~IsFullyDead(rowset_stats[r])
               /\ IsValid(q, rowset_stats) /\ ~IsFullyDead(rowset_stats[q])
               /\ FloatGreater(CompactionEntry(r, rowset_stats[r]).score_per_row,
                               CompactionEntry(q, rowset_stats[q]).score_per_row)

\* every rowset_stats entry has num_dels <= num_rows
DelsWithinRows ==
    \A r \in DOMAIN rowset_stats : rowset_stats[r].num_dels <= rowset_stats[r].num_rows

\* the apply task is not in the middle of a log entry
BetweenEntries == da.pc \in {"none", "while", "pick", "check_error", "exit"}

\* C22: every rowset_stats entry has num_dels <= num_rows, after every
\* applied rowset commit and every applied compaction.
C22_DelsWithinRows == BetweenEntries => DelsWithinRows

\* a commit that raced with the shutdown has started an apply task after
\* _stop_and_wait_apply_done returned; the task has seen the stop flag and
\* leaves without applying the entry that waits
C19_Witness ==
    /\ ls.pc = "locked"
    /\ apply_stopped
    /\ apply_running
    /\ da.pc = "exit"
    /\ apply_version_idx + 1 < Len(versions)

\* the rows met from row index on by following next[], at most fuel of them
RECURSIVE Chain(_, _, _)
Chain(items, index, fuel) ==
    IF index = 0 \/ fuel = 0 THEN <<>>
    ELSE <<index>> \o Chain(items, items.next[index], fuel - 1)

\* the chain of a bucket, cut after row_count + 1 rows
BucketChain(items, b) == Chain(items, items.first[b], items.row_count + 1)

\* how many times the chains of all the buckets go through row i
RECURSIVE Visits(_, _, _)
Visits(items, i, b) ==
    IF b = items.bucket_size THEN 0
    ELSE Cardinality({k \in 1..Len(BucketChain(items, b)) : BucketChain(items, b)[k] = i})
         + Visits(items, i, b + 1)

\* C24: in a built table, whatever the key encoding, the chains that start at
\* first[] and follow next[] go exactly once through every build row whose key
\* is not NULL, never through a row with a NULL key and never through row 0;
\* every chain ends at 0 and next[0] is 0
C24_ChainsCoverNonNullRows ==
    table_items.built =>
        /\ DOMAIN table_items.first = 0..(table_items.bucket_size - 1)
        /\ DOMAIN table_items.next = 0..table_items.row_count
        /\ table_items.next[0] = 0
        /\ Visits(table_items, 0, 0) = 0
        /\ \A i \in 1..table_items.row_count :
               Visits(table_items, i, 0) = IF IsNullRow(BuildRow(table_items, i)) THEN 0 ELSE 1
        /\ \A b \in 0..(table_items.bucket_size - 1) :
               Len(BucketChain(table_items, b)) <= table_items.row_count

\* a built table of packed keys with a row whose key is NULL and a chain of
\* two rows
C24_Witness ==
    /\ table_items.built
    /\ table_items.encoding = "fixed"
    /\ \E i \in 1..table_items.row_count : IsNullRow(BuildRow(table_items, i))
    /\ \E b \in 0..(table_items.bucket_size - 1) : Len(BucketChain(table_items, b)) = 2

\* the concatenation of the sequences of a sequence
RECURSIVE Flatten(_)
Flatten(ss) == IF ss = <<>> THEN <<>> ELSE Head(ss) \o Flatten(Tail(ss))

\* the build rows whose key equals the key of a probe row, the newest first
RECURSIVE MatchesOf(_, _, _)
MatchesOf(items, row, j) ==
    IF j = 0 THEN <<>>
    ELSE (IF ~IsNullRow(row) /\ ~IsNullRow(BuildRow(items, j)) /\ BuildRow(items, j) = row
          THEN <<j>> ELSE <<>>) \o MatchesOf(items, row, j - 1)

\* the pairs of the probe rows from i on, in the order of the probe rows; a
\* left outer join pairs a probe row without match with build row 0
RECURSIVE JoinPairs(_, _, _)
JoinPairs(items, key_rows, i) ==
    IF i >= Len(key_rows) THEN <<>>
    ELSE LET m == MatchesOf(items, key_rows[i + 1], items.row_count)
             row_pairs == IF m = <<>> /\ items.join_type = "LEFT_OUTER_JOIN" THEN <<<<i, 0>>>>
                          ELSE [k \in 1..Len(m) |-> <<i, m[k]>>]
         IN row_pairs \o JoinPairs(items, key_rows, i + 1)

\* the pairs of all the chunks returned for the probe chunk
ReturnedPairs == Flatten([k \in 1..Len(returned) |-> returned[k].pairs])

\* is s the beginning of t, and not all of it
IsProperPrefix(s, t) == Len(s) < Len(t) /\ \A k \in 1..Len(s) : s[k] = t[k]

\* C23: the calls made for one probe chunk put out every matching pair once,
\* in the order of the probe rows, at most one batch of vector_chunk_size
\* pairs per call; has_remain is true after every call but the last, and after
\* the last call cur_probe_index and cur_row_match_count are 0 again
C23_ProbeResumes ==
    returned # <<>> =>
        /\ \A k \in 1..Len(returned) : Len(returned[k].pairs) <= vector_chunk_size
        /\ IF probe_state.has_remain
           THEN IsProperPrefix(ReturnedPairs, JoinPairs(table_items, child, 0))
           ELSE /\ ReturnedPairs = JoinPairs(table_items, child, 0)
                /\ probe_state.cur_probe_index = 0
                /\ probe_state.cur_row_match_count = 0

\* a chunk whose pairs took three calls, the second of which stopped in the
\* middle of the chain of a probe row
C23_Witness ==
    /\ Len(returned) = 3
    /\ ~probe_state.has_remain
    /\ \E i \in 0..(probe_state.probe_row_count - 1) :
           /\ returned[2].pairs[Len(returned[2].pairs)][1] = i
           /\ returned[3].pairs[1][1] = i

\* the probe rows that have no match on the build side
ZeroMatchRows == {i \in 0..(Len(child) - 1) : MatchesOf(table_items, child[i + 1], table_items.row_count) = <<>>}

\* a left outer join has put out, for each probe row without match of a
\* drained chunk, one pair, whose build_index is 0
OneNullPair ==
    (table_items.join_type = "LEFT_OUTER_JOIN" /\ returned # <<>> /\ ~probe_state.has_remain) =>
        \A i \in ZeroMatchRows :
            /\ Cardinality({k \in 1..Len(ReturnedPairs) : ReturnedPairs[k][1] = i}) = 1
            /\ \E k \in 1..Len(ReturnedPairs) : ReturnedPairs[k] = <<i, 0>>

\* the statement of C25 as the specification has it: in every chunk of a left
\* outer join, a tuple column is false in the rows whose build_index is 0 and
\* in no other row
C25_FalseExactlyAtNullPairs ==
    /\ OneNullPair
    /\ table_items.join_type = "LEFT_OUTER_JOIN" =>
           \A c \in 1..Len(returned) : \A t \in DOMAIN returned[c].tuple_columns :
               \A k \in 1..Len(returned[c].pairs) :
                   returned[c].tuple_columns[t][k] = FALSE <=> returned[c].pairs[k][2] = 0

\* C25: a left outer join puts out exactly one pair for a probe row without
\* match, with build_index 0; in every chunk a tuple column is false in the
\* rows whose build_index is 0, and in no other row when the build chunk has
\* no tuple column of its own (when it has, the row takes the value of the
\* build row)
C25_LeftOuterNullPair ==
    /\ OneNullPair
    /\ table_items.join_type = "LEFT_OUTER_JOIN" =>
           \A c \in 1..Len(returned) : \A t \in DOMAIN returned[c].tuple_columns :
               \A k \in 1..Len(returned[c].pairs) :
                   /\ returned[c].pairs[k][2] = 0 => returned[c].tuple_columns[t][k] = FALSE
                   /\ (returned[c].pairs[k][2] # 0 /\ ~table_items.build_tuple_exist)
                          => returned[c].tuple_columns[t][k] = TRUE
                   /\ (returned[c].pairs[k][2] # 0 /\ table_items.build_tuple_exist)
                          => returned[c].tuple_columns[t][k]
                                 = BuildTupleColumn(t, returned[c].pairs[k][2])

\* a drained chunk of a left outer join with a probe row without match, whose
\* pair opens the second chunk returned, and with tuple columns
C25_Witness ==
    /\ table_items.join_type = "LEFT_OUTER_JOIN"
    /\ Len(returned) = 2
    /\ ~probe_state.has_remain
    /\ ZeroMatchRows # {}
    /\ returned[2].pairs[1][2] = 0
    /\ DOMAIN returned[2].tuple_columns # {}

\* C26: the match flag of a call has no effect on the rows it puts out: under
\* ALL_MATCH_ONE, MOST_MATCH_ONE and NORMAL alike the probe rows of the chunk
\* are those of its (probe_index, build_index) pairs
C26_MatchFlagNoEffect ==
    \A c \in 1..Len(returned) :
        returned[c].probe_rows = [k \in 1..Len(returned[c].pairs) |-> returned[c].pairs[k][1]]

\* a chunk put out under MOST_MATCH_ONE, with a probe row that has no pair
C26_Witness ==
    /\ returned # <<>>
    /\ returned[1].match_flag = "MOST_MATCH_ONE"
    /\ Len(returned[1].pairs) < Len(child)
    /\ Len(child) = MaxProbeRows

\* the statement of C29 as the specification has it: with right_to_nullable
\* set no tuple column is put out
C29_NoColumnsWhenNullable ==
    table_items.right_to_nullable =>
        \A c \in 1..Len(returned) : DOMAIN returned[c].tuple_columns = {}

\* C29: _build_tuple_output puts out no tuple column when right_to_nullable is
\* not set and the build chunk has no tuple column; with right_to_nullable
\* set it puts out one for each output tuple id of the build side
C29_TupleColumnsEmitted ==
    \A c \in 1..Len(returned) :
        /\ (~table_items.right_to_nullable /\ ~table_items.build_tuple_exist)
               => DOMAIN returned[c].tuple_columns = {}
        /\ table_items.right_to_nullable
               => DOMAIN returned[c].tuple_columns = table_items.output_build_tuple_ids

\* a chunk with pairs of a table with right_to_nullable set
C29_Witness ==
    /\ returned # <<>>
    /\ table_items.right_to_nullable
    /\ returned[1].pairs # <<>>
    /\ \A t \in table_items.output_build_tuple_ids :
           Len(returned[1].tuple_columns[t]) = Len(returned[1].pairs)

\* every chunk returned so far was returned by _probe_remain, after the probe
\* side had been read to its end and every chunk of it probed
AllFromProbeRemain ==
    \A c \in 1..Len(returned) :
        /\ returned[c].from = "probe_remain"
        /\ returned[c].probe_eos
        /\ child.probe = <<>>
        /\ child.drained = child.fetched

\* the statement of C27 as the specification has it: right semi and right
\* anti joins alike return rows from _probe_remain only
C27_RightJoinsDefer ==
    node.join_type \in {"RIGHT_SEMI_JOIN", "RIGHT_ANTI_JOIN"} => AllFromProbeRemain

\* C27: a right anti join returns rows only after the probe side has been
\* scanned to its end, and all of them come from probe_remain; a right semi
\* join returns its rows while it probes and never from probe_remain
C27_RightAntiDefers ==
    /\ node.join_type = "RIGHT_ANTI_JOIN" => AllFromProbeRemain
    /\ node.join_type = "RIGHT_SEMI_JOIN" =>
           \A c \in 1..Len(returned) : returned[c].from = "probe"

\* a right anti join with an other conjunct that has returned rows, after
\* probe rows have set the hit bit of a build row
C27_Witness ==
    /\ node.join_type = "RIGHT_ANTI_JOIN"
    /\ node.other_conjunct = "build_odd"
    /\ returned # <<>>
    /\ child.fetched # {}
    /\ \E j \in 1..table_items.row_count : probe_state.build_match_index[j] = 1

\* a step that takes a chunk from the probe side is not made while the table
\* has pairs left, and the chunk of a table with pairs left is kept and probed
\* again
ReprobesSameChunk ==
    /\ child'.probe # child.probe => ~node.ht_has_remain
    /\ node.ht_has_remain =>
           /\ node.probing_chunk # <<>>
           /\ node'.probing_chunk = IF node'.ht_has_remain THEN node.probing_chunk ELSE <<>>
           /\ probe_state' # probe_state =>
                  /\ probe_state.key_rows = KeyRowsOf(node.probing_chunk)
                  /\ probe_state'.key_rows = probe_state.key_rows

\* the statement of C28 as the specification has it: no chunk of the probe
\* side is left with pairs pending when the node is at its end
C28_NoChunkDropped ==
    /\ [][ReprobesSameChunk]_vars
    /\ [](node.pc = "finished" => child.drained = child.fetched)

\* C28: while the table reports has_remain the node probes the same chunk
\* again and takes no chunk from the probe side; when the node is at its end
\* every chunk it has taken has been probed until the table had no pair left
\* for it, unless the end is that of the row limit
C28_ReprobesUntilDrained ==
    /\ [][ReprobesSameChunk]_vars
    /\ []((node.pc = "finished" /\ ~reached_limit(node)) => child.drained = child.fetched)

\* get_next has returned a chunk and is called again while the table has pairs
\* left and the probe side has a chunk to give
C28_Witness ==
    /\ node.pc = "probe"
    /\ node.ht_has_remain
    /\ returned # <<>>
    /\ child.probe # <<>>
    /\ Head(child.probe) # <<>>

\* C30: open() refuses a build side whose row count would not fit the 32-bit
\* row index before it appends the chunk that brings the count to UINT32_MAX
\* or beyond, and before it builds: the row count of the table is always the
\* number of rows appended and below UINT32_MAX; the chunk refused would have
\* brought it to UINT32_MAX or beyond, and after it nothing is appended or
\* built
C30_RowCountRejected ==
    /\ table_items.row_count = child.appended
    /\ ~LimbsGeq(table_items.row_count, UINT32_MAX)
    /\ node.status = "NotSupported" <=> child.rejected # Limbs(0)
    /\ node.status = "NotSupported" =>
           /\ LimbsGeq(LimbsAdd(child.appended, child.rejected), UINT32_MAX)
           /\ ~table_items.built
           /\ node.pc = "failed"
    /\ table_items.built => node.status = "OK"

\* open() has refused a chunk that is itself below UINT32_MAX rows, after it
\* had appended rows
C30_Witness ==
    /\ node.status = "NotSupported"
    /\ child.appended # Limbs(0)
    /\ ~LimbsGeq(child.rejected, UINT32_MAX)

\* no apply task exists: none is queued in the pool and none is running
NoApplyTask == apply_queue = 0 /\ da.pc = "none"

\* C34: while the tablet is not in the error state and apply is not stopped,
\* whenever the log holds an unapplied entry an apply task is running or is
\* scheduled, also when a commit appended the entry while the running task was
\* exiting.
C34_UnappliedGetsApplied ==
    (~crashed /\ ~error /\ ~apply_stopped /\ apply_version_idx + 1 < Len(versions))
        => ~NoApplyTask

\* C35: the log entry do_apply is applying is in the version log until that
\* apply step has finished, under any interleaving with
\* remove_expired_versions, load_snapshot and clear_meta.
C35_AppliedEntryRetained == (~crashed /\ HoldsEntry) => InLog(da.info[1])

\* the log holds a compaction entry that has not been applied
UnappliedCompaction ==
    \E i \in (apply_version_idx + 2)..Len(versions) : versions[i].compaction # <<>>

\* no call of compaction() is executing, and the apply task is not inside
\* the apply of a compaction entry
NoCompactionAtWork ==
    /\ \A t \in CompactionThreads : cp[t].pc = "idle"
    /\ da.pc \notin {"mark", "compaction_prepare", "write", "stats", "unmark"}

\* C36: whenever no compaction() call is executing and the version log holds
\* no unapplied compaction entry, the compaction-running flag is false, also
\* after a failed or cancelled compaction and after a full snapshot load has
\* discarded a committed but unapplied compaction entry.
C36_FlagReleased ==
    (~crashed /\ NoCompactionAtWork /\ ~UnappliedCompaction) => ~compaction_running

\* thread t leaves _commit_compaction in this step, having loaded the
\* compaction state of its output rowset
CommitsCompaction(t) ==
    /\ cp[t].pc = "commit"
    /\ cp'[t].pc # "commit"
    /\ cp'[t].status # "LoadError"

\* the log has grown by exactly one entry, the compaction entry of thread t:
\* its version is (last.major, last.minor + 1) and its rowset list is the
\* list of the latest entry without the inputs, plus the one output rowset
OneCompactionEntry(t) ==
    LET last == Last(versions)
        new == Last(versions')
        output == new.compaction[1].output
    IN /\ Len(versions') = Len(versions) + 1
       /\ SubSeq(versions', 1, Len(versions)) = versions
       /\ new.version = EditVersion(last.version.major, last.version.minor + 1)
       /\ new.deltas = <<>>
       /\ new.compaction # <<>>
       /\ new.compaction[1].inputs = cp[t].inputs
       /\ new.rowsets =
              SelectSeq(last.rowsets, LAMBDA r : r \notin SeqToSet(cp[t].inputs)) \o <<output>>
       /\ \A r \in SeqToSet(last.rowsets) \ SeqToSet(cp[t].inputs) :
              r \in SeqToSet(new.rowsets)

C37_WitnessCancelled ==
    \E t \in CompactionThreads : cp[t].pc = "fail" /\ cp[t].status = "Cancelled"

\* every operator that shares the context has returned from its close()
AllOperatorsClosed == \A o \in DOMAIN context.operators : context.operators[o] = "closed"

\* C32: a context shared by several operators is closed exactly once, by the
\* unref() of the last related operator to close, and never while an operator
\* that called ref() has not yet called unref(), whatever the order in which
\* the operators close.
C32_ClosedOnceByLast ==
    /\ context.closes <= 1
    /\ context.running_at_close = {}
    /\ context.closes = 1 => context.num_running_operators = 0
    /\ AllOperatorsClosed => context.closes = 1

\* several operators have shared the context, all have closed, and the
\* context is closed
C32_Witness ==
    /\ Len(context.operators) >= 2
    /\ AllOperatorsClosed
    /\ context.closes = 1

\* the calls every operator is to receive, in order
Lifecycle == <<"prepare", "set_finishing", "set_finished", "close">>

IsPrefix(s, t) == Len(s) <= Len(t) /\ \A k \in 1..Len(s) : s[k] = t[k]

\* C31: every operator of a pipeline driver has prepare, set_finishing,
\* set_finished and close invoked exactly once each and in that order before
\* it is destroyed, on every path: normal completion, early finish of a
\* downstream operator, cancellation of the fragment.
C31_LifecycleOnceInOrder ==
    \A op \in DOMAIN driver.calls :
        /\ IsPrefix(driver.calls[op], Lifecycle)
        /\ driver.finalized => driver.calls[op] = Lifecycle

\* a cancelled fragment's driver is finalized after it moved a chunk, with
\* every operator through its four calls
C31_Witness ==
    /\ driver.finalized
    /\ driver.is_canceled
    /\ NumOperators(driver) = 3
    /\ driver.pushed[2] # <<>>
    /\ \A op \in DOMAIN driver.calls : driver.calls[op] = Lifecycle

\* the same after a normal completion that moved every chunk to the sink
C31_WitnessNormal ==
    /\ driver.finalized
    /\ ~driver.is_canceled
    /\ ~driver.ht_empty
    /\ driver.state = "FINISH"
    /\ Len(driver.pushed[NumOperators(driver)]) = 2

\* the same when the sink finished early, with chunks left in the source
C31_WitnessEarly ==
    /\ driver.finalized
    /\ ~driver.is_canceled
    /\ driver.ht_empty
    /\ driver.state = "FINISH"
    /\ driver.index < Len(driver.chunks)

\* the chunks with rows that the source holds, in order
ChunksWithRows(d) == SelectSeq(d.chunks, LAMBDA chunk : chunk > 0)

\* C33 as stated: the pipeline driver neither loses nor duplicates chunks:
\* every non-empty chunk pulled from an operator is pushed to the next
\* operator exactly once, in the order pulled, so that when the fragment
\* finishes each downstream operator has been pushed exactly as many chunks
\* as the source produced.
C33_NoChunkLostOrDuplicated ==
    \A op \in 1..(NumOperators(driver) - 1) :
        /\ IsPrefix(driver.pushed[op + 1], driver.pulled[op])
        /\ driver.finalized =>
              /\ driver.pushed[op + 1] = driver.pulled[op]
              /\ Len(driver.pushed[op + 1]) = Len(driver.pulled[1])

\* the driver finished with no cancellation, no error and no early finish
\* of the sink
FinishedNormally ==
    /\ driver.finalized
    /\ driver.state = "FINISH"
    /\ ~driver.is_canceled
    /\ ~driver.ht_empty

\* C33, amended: every non-empty chunk pulled from an operator is pushed to
\* the next operator at most once and in the order pulled; the only chunk
\* pulled and not pushed is the one in the driver's hands, which is dropped
\* when the cancellation of the fragment is seen between the pull and the
\* push; and when the driver finishes with no cancellation, no error and no
\* early finish of the sink, each downstream operator has been pushed
\* exactly the non-empty chunks of the source, in order.
C33_ChunksConserved ==
    \A op \in 1..(NumOperators(driver) - 1) :
        /\ IsPrefix(driver.pushed[op + 1], driver.pulled[op])
        /\ Len(driver.pulled[op]) - Len(driver.pushed[op + 1]) <= 1
        /\ driver.pushed[op + 1] # driver.pulled[op] =>
              \/ driver.pc = "pulled" /\ driver.i = op /\ driver.maybe_chunk > 0
              \/ driver.is_canceled
        /\ FinishedNormally => driver.pushed[op + 1] = ChunksWithRows(driver)

\* a chain of three operators finished normally with two chunks at the sink
C33_Witness ==
    /\ FinishedNormally
    /\ NumOperators(driver) = 3
    /\ driver.pushed[3] = <<1, 2>>

\* C38: the merge iterator's compared-row cursor never wraps around: for
\* every chunk of a child that the iterator accepts, of any number of rows
\* up to 65536, the cursor of a chunk in the heap is the number of rows
\* emitted from it and stays strictly below its row count, so
\* remaining_rows() is between 1 and the row count and no row of the chunk is
\* emitted twice.
C38_CursorNeverWraps ==
    \A e \in merge.heap :
        /\ e.compared_row = merge.taken[e.order]
        /\ e.compared_row < NumRowsOf(merge.chunk_pool[e.order])
        /\ remaining_rows(merge, e) \in 1..NumRowsOf(merge.chunk_pool[e.order])

\* the rows of |key| that child |order| was given
RowsOfInput(order, key) ==
    LET chunks == merge.input[order]
        matching == {<<k, r>> \in UNION {{<<k, r>> : r \in DOMAIN chunks[k]} : k \in DOMAIN chunks} :
                        chunks[k][r].key = key}
        RECURSIVE Sum(_)
        Sum(S) == IF S = {} THEN 0
                  ELSE LET x == CHOOSE y \in S : TRUE
                       IN chunks[x[1]][x[2]].rows + Sum(S \ {x})
    IN Sum(matching)

\* the rows of |key| from child |order| emitted so far
RowsEmitted(order, key) ==
    LET matching == {k \in DOMAIN merge.emitted :
                        merge.emitted[k].order = order /\ merge.emitted[k].key = key}
        RECURSIVE Sum(_)
        Sum(S) == IF S = {} THEN 0
                  ELSE LET x == CHOOSE y \in S : TRUE
                       IN merge.emitted[x].rows + Sum(S \ {x})
    IN Sum(matching)

MergeKeys ==
    UNION {UNION {{merge.input[c][k][r].key : r \in DOMAIN merge.input[c][k]} :
                    k \in DOMAIN merge.input[c]} : c \in DOMAIN merge.input}

\* the rows emitted are in non-decreasing key order, rows of one key in the
\* order of their children
EmittedInOrder ==
    \A k \in 1..(Len(merge.emitted) - 1) :
        \/ merge.emitted[k].key < merge.emitted[k + 1].key
        \/ /\ merge.emitted[k].key = merge.emitted[k + 1].key
           /\ merge.emitted[k].order < merge.emitted[k + 1].order

AllChildrenExhausted ==
    \A c \in DOMAIN merge.children : merge.children[c] = <<>> /\ merge.chunk_pool[c] = <<>>

\* C39: given children that each yield their rows in non-decreasing key
\* order, the heap merge iterator emits every input row exactly once, in
\* non-decreasing key order overall with rows of equal key ordered by child
\* index, and returns EndOfFile only after all children are exhausted and
\* every buffered row has been emitted.
C39_MergesEveryRowOnceInOrder ==
    /\ EmittedInOrder
    /\ \A c \in DOMAIN merge.input : \A key \in MergeKeys :
          /\ RowsEmitted(c, key) <= RowsOfInput(c, key)
          /\ merge.status = "EndOfFile" => RowsEmitted(c, key) = RowsOfInput(c, key)
    /\ merge.status = "EndOfFile" => AllChildrenExhausted /\ merge.heap = {}

\* every chunk given has fewer rows than the cursor has values
BelowCursorWidth ==
    \A c \in DOMAIN merge.input : \A k \in DOMAIN merge.input[c] :
        NumRowsOf(merge.input[c][k]) < CompareRowWidth

\* the two properties on children whose chunks have fewer than 65536 rows
MergeCorrectBelowWidth == BelowCursorWidth => C38_CursorNeverWraps /\ C39_MergesEveryRowOnceInOrder

\* two children with rows of the same key were merged to the end
MergeEndReached ==
    /\ merge.status = "EndOfFile"
    /\ Len(merge.emitted) >= 3
    /\ \E k \in 1..(Len(merge.emitted) - 1) : merge.emitted[k].key = merge.emitted[k + 1].key

\* thread t is answered by the lookup of add_chunk, which found no channel
AnsweredWithoutChannel(t) ==
    /\ load_mgr.calls[t].pc = "idle"
    /\ load_mgr'.calls[t].pc = "done"

\* C40: LoadChannelMgr::add_chunk for a load id that has no open channel
\* returns OK only when that load id is recorded as recently finished
\* successfully and the request has eos == true; in every other case
\* (never-opened id, cancelled or timed-out channel, non-eos request) it
\* returns an error, and it creates no channel.
C40_AddChunkWithoutChannel ==
    [][\A t \in LoadThreads :
          AnsweredWithoutChannel(t) =>
             LET call == load_mgr'.calls[t]
                 recorded == /\ call.load_id \in load_mgr.lastest_success_channel
                             /\ call.load_id \in load_mgr.finished_ids
             IN /\ ~HasChannel(load_mgr, call.load_id)
                /\ call.status = "OK" <=> (recorded /\ call.eos)
                /\ call.status # "OK" => call.status = "InternalError"
                /\ load_mgr'.load_channels = load_mgr.load_channels]_vars

\* a retried final request for a finished load is answered OK with no
\* channel open for it
C40_Witness ==
    \E t \in LoadThreads :
        /\ load_mgr.calls[t].pc = "done"
        /\ load_mgr.calls[t].channel = "none"
        /\ load_mgr.calls[t].status # "none"
        /\ load_mgr.calls[t].status = "OK"
        /\ load_mgr.calls[t].eos
        /\ ~HasChannel(load_mgr, load_mgr.calls[t].load_id)

\* a final request for a load none of whose channels finished is answered
\* with an error
C40_WitnessUnfinished ==
    \E t \in LoadThreads :
        /\ load_mgr.calls[t].pc = "done"
        /\ load_mgr.calls[t].channel = "none"
        /\ load_mgr.calls[t].status # "none"
        /\ load_mgr.calls[t].status = "InternalError"
        /\ load_mgr.calls[t].eos
        /\ load_mgr.calls[t].load_id \notin load_mgr.finished_ids

====
